---- MODULE Spec2Model ----
(***************************************************************************)
(* Model of the Vulkan engine of src/src/vk_engine.cpp: queue-family role  *)
(* derivation, physical-device selection, logical-device creation,         *)
(* swapchain negotiation, the init / cleanup lifecycle of the engine       *)
(* objects of a process, and the frame loop.  Handles are small integers;  *)
(* std::optional<uint32_t> is a set with at most one element; family       *)
(* indices are 0-based as in the source, sequences are 1-based.            *)
(***************************************************************************)
EXTENDS Integers, Sequences, FiniteSets, TLC

(***************************************************************************)
(* Bounds of the model.                                                    *)
(***************************************************************************)
\* Longest queue-family list a device reports in the queue-family runs.
MaxFamilies == 3
\* Longest list vkEnumeratePhysicalDevices returns in the selection runs.
MaxDevices == 2
\* Highest major and minor API version numbers a device reports.
MaxMajor == 2
MaxMinor == 4
\* Largest minImageCount / maxImageCount a surface reports in the swapchain
\* runs (0 apart, which stands for "no upper limit").
MaxImages == 3
\* Width in bits of the unsigned integers of the swapchain runs (uint32_t in
\* the source): wide enough for every extent used, small enough to enumerate.
UintBits == 13
\* Longest surface-format list and longest present-mode list handed to the two
\* choosers in the chooser runs.
MaxFormats == 3
MaxModes == 3
\* init calls made in a lifecycle run, over all engine objects, and calls into
\* SDL or the driver that fail in it.
MaxInits == 2
MaxFailures == 1
\* Iterations of the frame loop in a frame-loop run, and events SDL_PollEvent
\* hands out in one iteration.
MaxIterations == 4
MaxPolls == 3

VARIABLES
    \* find_required_queue_families (vk_engine.cpp:516-568)
    queueFamilyProperties,      \* the device's reported queue families
    findDedicatedTransferFamily,\* the function's second parameter
    indices,                    \* the local QueueFamilyIndices being filled
    familyIdx,                  \* the loop variable i
    queuePc,                    \* "idle", "scan", "after", "returned"
    \* select_vulkan_physical_device (vk_engine.cpp:235-350)
    availablePhysicalDevices,   \* what vkEnumeratePhysicalDevices returned;
                                \* a device's handle is its position
    devicesSeen,                \* devices the range-for has gone through
    physicalDeviceRankings,     \* the multimap, as its iteration order
    queueFamilyIndices,         \* the local declared before the loop
    swapchainSupportDetails,    \* the local declared before the loop
    m_vulkanPhysicalDevice,
    m_queueFamilyIndices,
    m_swapChainSupportDetails,
    \* create_vulkan_logical_device (vk_engine.cpp:352-419)
    deviceQueueCreateInfos,
    m_vulkanLogicalDevice,
    m_graphicsQueue,
    m_presentationQueue,
    m_transferQueue,
    selectPc,                   \* "idle", "select", "select_failed",
                                \* "selected", "device_failed", "device_created"
    thrown,                     \* the exception raised, or "none"
    \* create_vulkan_swapchain (vk_engine.cpp:421-490)
    swapchainCreateInfo,
    m_vulkanSwapchainKHR,
    m_swapchainExtent2D,
    m_swapchainSurfaceFormat,
    m_swapchainSurfaceColorspace,
    m_swapchainImages,
    m_swapchainImageViews,
    swapchainPc,                \* "idle", "create", "views", "created",
                                \* "failed", "aborted"
    \* choose_swapchain_surface_format (vk_engine.cpp:611-618)
    formatList,                 \* the argument surfaceFormats
    formatReturned,             \* the VkSurfaceFormatKHR returned
    formatPc,                   \* "idle", "called", "returned", "thrown"
    \* choose_swapchain_present_mode (vk_engine.cpp:620-627)
    modeList,                   \* the argument presentModes
    modeDesired,                \* the argument desiredPresentMode
    modeReturned,               \* the VkPresentModeKHR returned
    modePc,                     \* "idle", "called", "returned"
    \* init and cleanup (vk_engine.cpp:17-77)
    ndebug,                     \* the build defines NDEBUG
    loadedEngine,               \* the global: nullptr or an engine object
    engine,                     \* the members of each engine object
    inits,                      \* init calls made on each engine object
    failures,                   \* calls into SDL or the driver that failed
    lifePc,                     \* "idle" between calls, the step init is
                                \* at, or "aborted"
    lifeThis,                   \* the engine object of the call in progress
    live,                       \* resources created and not destroyed
    created,                    \* per engine: what its latest init call
                                \* created, in creation order
    teardown,                   \* per engine: the calls of its latest
                                \* cleanup since that init, in call order
    initOutcome,                \* per engine: how its latest init call
                                \* ended: "none", "running", "failed",
                                \* "succeeded"
    destroyedAgain,             \* resources a destroy call was made on when
                                \* they were not live any more
    \* run (vk_engine.cpp:83-114)
    bQuit,
    m_stopRendering,
    runPc,                      \* "idle", "loop_test", "poll", "returned"
    iteration,                  \* iterations of the outer loop begun
    polled,                     \* events polled in this iteration
    draws,                      \* calls of draw made
    lastWindowEvent,            \* the latest MINIMIZED or RESTORED event
                                \* polled, or "none"
    quitPolled                  \* SDL_PollEvent has handed out an SDL_QUIT

queueVars == <<queueFamilyProperties, findDedicatedTransferFamily, indices,
               familyIdx, queuePc>>

selectVars == <<availablePhysicalDevices, devicesSeen, physicalDeviceRankings,
                queueFamilyIndices, swapchainSupportDetails,
                m_vulkanPhysicalDevice, m_queueFamilyIndices,
                m_swapChainSupportDetails, selectPc, thrown>>

deviceVars == <<deviceQueueCreateInfos, m_vulkanLogicalDevice, m_graphicsQueue,
                m_presentationQueue, m_transferQueue>>

swapchainVars == <<swapchainCreateInfo, m_vulkanSwapchainKHR,
                   m_swapchainExtent2D, m_swapchainSurfaceFormat,
                   m_swapchainSurfaceColorspace, m_swapchainImages,
                   m_swapchainImageViews, swapchainPc>>

chooseVars == <<formatList, formatReturned, formatPc, modeList, modeDesired,
                modeReturned, modePc>>

lifeVars == <<ndebug, loadedEngine, engine, inits, failures, lifePc, lifeThis,
              live, created, teardown, initOutcome, destroyedAgain>>

runVars == <<bQuit, m_stopRendering, runPc, iteration, polled, draws,
             lastWindowEvent, quitPolled>>

vars == <<queueVars, selectVars, deviceVars, swapchainVars, chooseVars,
          lifeVars, runVars>>

\* The sequences over S of length at most n.
RECURSIVE SeqsUpTo(_, _)
SeqsUpTo(S, n) ==
    IF n = 0 THEN {<<>>}
    ELSE LET shorter == SeqsUpTo(S, n - 1)
         IN shorter \cup {Append(s, x) : s \in shorter, x \in S}

(***************************************************************************)
(* QueueFamilyIndices (vk_utils.h)                                         *)
(***************************************************************************)
\* A default-constructed QueueFamilyIndices: three empty optionals.
EmptyQueueFamilyIndices ==
    [graphicsFamily |-> {}, presentationFamily |-> {}, transferFamily |-> {}]

\* QueueFamilyIndices::isComplete
isComplete(qfi) ==
    /\ qfi.graphicsFamily # {}
    /\ qfi.presentationFamily # {}
    /\ qfi.transferFamily # {}

\* The optional's value().
ValueOf(optional) == CHOOSE x \in optional : TRUE

(***************************************************************************)
(* find_required_queue_families                                            *)
(***************************************************************************)
\* One queue family as the driver reports it: its capability flags and
\* whether vkGetPhysicalDeviceSurfaceSupportKHR reports presentation support.
QueueFamilySpace ==
    [queueFlags : SUBSET {"GRAPHICS", "TRANSFER"}, presentationSupport : BOOLEAN]

\* "Graphics Family": the first graphics-capable family.
GraphicsRole(qfi, i, family) ==
    IF qfi.graphicsFamily = {} /\ "GRAPHICS" \in family.queueFlags
    THEN {i} ELSE qfi.graphicsFamily

\* "Presentation Family": the first family that can present to the surface.
PresentationRole(qfi, i, family) ==
    IF qfi.presentationFamily = {} /\ family.presentationSupport
    THEN {i} ELSE qfi.presentationFamily

\* Mutant: the dedicated search accepts any transfer-capable family.
TransferRoleAnyTransfer(qfi, i, family, dedicated) ==
    IF ~dedicated
    THEN IF qfi.transferFamily = {} /\ "TRANSFER" \in family.queueFlags
         THEN {i} ELSE qfi.transferFamily
    ELSE IF "TRANSFER" \in family.queueFlags
         THEN {i} ELSE qfi.transferFamily

\* "Transfer Family": guarded by !indices.transferFamily only when no
\* dedicated family is asked for; the dedicated branch assigns unguarded.
TransferRole(qfi, i, family, dedicated) ==
    IF ~dedicated
    THEN IF qfi.transferFamily = {} /\ "TRANSFER" \in family.queueFlags
         THEN {i} ELSE qfi.transferFamily
    ELSE IF "TRANSFER" \in family.queueFlags
            /\ "GRAPHICS" \notin family.queueFlags
         THEN {i} ELSE qfi.transferFamily

\* The body of the scan loop for family index i, up to the completeness test.
ScanFamily(qfi, i, family, dedicated) ==
    [graphicsFamily     |-> GraphicsRole(qfi, i, family),
     presentationFamily |-> PresentationRole(qfi, i, family),
     transferFamily     |-> TransferRole(qfi, i, family, dedicated)]

\* The code after the loop: fall back to the graphics family.
TransferFallback(qfi, dedicated) ==
    IF dedicated /\ qfi.transferFamily = {}
    THEN [qfi EXCEPT !.transferFamily = qfi.graphicsFamily]
    ELSE qfi

\* The scan loop from family index i on, with its early break.
RECURSIVE ScanFrom(_, _, _, _)
ScanFrom(qfi, i, families, dedicated) ==
    IF i >= Len(families) THEN qfi
    ELSE LET n == ScanFamily(qfi, i, families[i + 1], dedicated)
         IN IF isComplete(n) THEN n ELSE ScanFrom(n, i + 1, families, dedicated)

\* The whole function, as select_vulkan_physical_device calls it.
find_required_queue_families(families, dedicated) ==
    TransferFallback(ScanFrom(EmptyQueueFamilyIndices, 0, families, dedicated),
                     dedicated)

(***************************************************************************)
(* Engine members and their initial values (vk_engine.h)                   *)
(***************************************************************************)
VK_NULL_HANDLE == 0

m_useDedicatedTransferQueueFamily == FALSE

m_requiredPhysicalDeviceExtensions == {"VK_KHR_swapchain"}

\* The feature flags select_vulkan_physical_device insists on.
RequiredFeatureNames ==
    {"dynamicRendering", "synchronization2", "bufferDeviceAddress",
     "descriptorIndexing"}

\* VkSurfaceCapabilitiesKHR is a plain struct: as a default-initialised
\* member its content is indeterminate until assigned, and the model never
\* reads it before that.
IndeterminateSurfaceCapabilities == [indeterminate |-> TRUE]

\* m_swapChainSupportDetails before select_vulkan_physical_device stores one.
DefaultMemberSwapChainSupportDetails ==
    [surfaceCapabilities |-> IndeterminateSurfaceCapabilities,
     surfaceFormats      |-> <<>>,
     presentationModes   |-> <<>>]

\* The value-initialised local "SwapChainSupportDetails x{}".
ZeroSurfaceCapabilities ==
    [minImageCount  |-> 0, maxImageCount |-> 0,
     currentExtent  |-> [width |-> 0, height |-> 0],
     minImageExtent |-> [width |-> 0, height |-> 0],
     maxImageExtent |-> [width |-> 0, height |-> 0]]

ValueInitSwapChainSupportDetails ==
    [surfaceCapabilities |-> ZeroSurfaceCapabilities,
     surfaceFormats      |-> <<>>,
     presentationModes   |-> <<>>]

(***************************************************************************)
(* Vulkan version words                                                    *)
(***************************************************************************)
\* VK_MAKE_API_VERSION(0, major, minor, patch)
VK_MAKE_API_VERSION(major, minor, patch) ==
    major * (2 ^ 22) + minor * (2 ^ 12) + patch

\* VK_VERSION_MAJOR(version): version >> 22
VK_VERSION_MAJOR(version) == version \div (2 ^ 22)

\* VK_VERSION_MINOR(version): (version >> 12) & 0x3FF
VK_VERSION_MINOR(version) == (version \div (2 ^ 12)) % (2 ^ 10)

(***************************************************************************)
(* The hard filters of select_vulkan_physical_device                       *)
(***************************************************************************)
\* "[Strict] Check if it has minimum Vulkan 1.3 support": TRUE = continue.
ApiVersionRejected(apiVersion) ==
    VK_VERSION_MAJOR(apiVersion) < 1 \/ VK_VERSION_MINOR(apiVersion) < 3

\* Mutant: the descriptorIndexing flag is not tested.
FeaturesRejectedNoDescriptorIndexing(features) ==
    \/ "dynamicRendering" \notin features \/ "synchronization2" \notin features
    \/ "bufferDeviceAddress" \notin features

\* "[Strict] Check for required Vulkan 1.3 and 1.2 features": TRUE = continue.
\* features is the set of flags vkGetPhysicalDeviceFeatures2 reported true.
FeaturesRejected(features) ==
    \/ "dynamicRendering" \notin features \/ "synchronization2" \notin features
    \/ "bufferDeviceAddress" \notin features \/ "descriptorIndexing" \notin features

\* Every required name is erased by some available extension.
check_physical_device_supports_required_extensions(available, required) ==
    required \ available = {}

query_swapchain_support(device) ==
    [surfaceCapabilities |-> device.surfaceCapabilities,
     surfaceFormats      |-> device.surfaceFormats,
     presentationModes   |-> device.presentationModes]

\* "[Strict] Check for adequate swapchain support": TRUE = continue.
SwapchainSupportRejected(details) ==
    details.surfaceFormats = <<>> \/ details.presentationModes = <<>>

\* "Ranking of Physical Devices based on various criteria"
PhysicalDeviceRank(device) ==
    IF device.deviceType = "DISCRETE_GPU" THEN 100 ELSE 0

\* Mutant: a new entry goes in front of the entries of equal key.
MultimapInsertBeforeEqual(rankings, entry) ==
    LET k == Cardinality({i \in 1 .. Len(rankings) : rankings[i].rank > entry.rank})
    IN SubSeq(rankings, 1, k) \o <<entry>> \o SubSeq(rankings, k + 1, Len(rankings))

\* std::multimap<int, VkPhysicalDevice, std::greater<>>::insert: keys in
\* descending order, a new entry after the entries of equal key.
MultimapInsert(rankings, entry) ==
    LET k == Cardinality({i \in 1 .. Len(rankings) : rankings[i].rank >= entry.rank})
    IN SubSeq(rankings, 1, k) \o <<entry>> \o SubSeq(rankings, k + 1, Len(rankings))

\* Mutant: the table counts as empty while it has at most one entry.
RankingsEmptyOffByOne(rankings) == Len(rankings) <= 1

\* physicalDeviceRankings.empty()
RankingsEmpty(rankings) == Len(rankings) = 0

\* The body of the range-for for the device with the given handle: the
\* locals and the table after it, each "continue" leaving the rest as is.
ExamineDevice(locals, handle, device) ==
    IF ApiVersionRejected(device.apiVersion) THEN locals
    ELSE IF FeaturesRejected(device.features) THEN locals
    ELSE LET q  == find_required_queue_families(device.queueFamilyProperties,
                                                m_useDedicatedTransferQueueFamily)
             l1 == [locals EXCEPT !.queueFamilyIndices = q]
         IN IF ~isComplete(q) THEN l1
            ELSE IF ~check_physical_device_supports_required_extensions(
                         device.extensions, m_requiredPhysicalDeviceExtensions)
                 THEN l1
            ELSE LET d  == query_swapchain_support(device)
                     l2 == [l1 EXCEPT !.swapchainSupportDetails = d]
                 IN IF SwapchainSupportRejected(d) THEN l2
                    ELSE [l2 EXCEPT !.physicalDeviceRankings =
                              MultimapInsert(@, [rank   |-> PhysicalDeviceRank(device),
                                                 device |-> handle])]

(***************************************************************************)
(* Swapchain negotiation helpers                                           *)
(***************************************************************************)
\* std::numeric_limits<uint32_t>::max() at the model's integer width.
UINT32_MAX == (2 ^ UintBits) - 1

\* VkExtent2D m_windowExtent{ 800 , 600 }: never assigned after that.
m_windowExtent == [width |-> 800, height |-> 600]

\* std::clamp(v, lo, hi) where lo <= hi.
StdClamp(v, lo, hi) == IF v < lo THEN lo ELSE IF hi < v THEN hi ELSE v

\* std::clamp(v, lo, hi) for any lo, hi: with hi < lo the call has undefined
\* behaviour, and the library implementations return lo or hi.
StdClampOutcomes(v, lo, hi) ==
    IF hi < lo THEN {lo, hi} ELSE {StdClamp(v, lo, hi)}

\* Mutant: the preferred entry is recognised by its format alone.
choose_swapchain_surface_format_FormatOnly(surfaceFormats) ==
    LET preferred == {k \in 1 .. Len(surfaceFormats) :
                         surfaceFormats[k].format = "B8G8R8A8_UNORM"}
    IN IF preferred # {}
       THEN surfaceFormats[CHOOSE k \in preferred : \A j \in preferred : k <= j]
       ELSE surfaceFormats[1]

\* choose_swapchain_surface_format, for a non-empty list (at(0) throws
\* std::out_of_range on an empty one).
choose_swapchain_surface_format(surfaceFormats) ==
    LET preferred == {k \in 1 .. Len(surfaceFormats) :
                         /\ surfaceFormats[k].format = "B8G8R8A8_UNORM"
                         /\ surfaceFormats[k].colorSpace = "SRGB_NONLINEAR"}
    IN IF preferred # {}
       THEN surfaceFormats[CHOOSE k \in preferred : \A j \in preferred : k <= j]
       ELSE surfaceFormats[1]

\* Mutant: the desired mode is returned whether or not it is listed.
choose_swapchain_present_mode_Unchecked(presentModes, desiredPresentMode) ==
    desiredPresentMode

choose_swapchain_present_mode(presentModes, desiredPresentMode) ==
    IF \E k \in 1 .. Len(presentModes) : presentModes[k] = desiredPresentMode
    THEN desiredPresentMode
    ELSE "FIFO"

\* Mutant: the height is clamped into the width's bounds.
choose_swapchain_extent_2D_WidthBoundsTwice(surfaceCapabilities) ==
    IF surfaceCapabilities.currentExtent.width # UINT32_MAX
    THEN surfaceCapabilities.currentExtent
    ELSE [width  |-> StdClamp(m_windowExtent.width,
                              surfaceCapabilities.minImageExtent.width,
                              surfaceCapabilities.maxImageExtent.width),
          height |-> StdClamp(m_windowExtent.height,
                              surfaceCapabilities.minImageExtent.width,
                              surfaceCapabilities.maxImageExtent.width)]

choose_swapchain_extent_2D(surfaceCapabilities) ==
    IF surfaceCapabilities.currentExtent.width # UINT32_MAX
    THEN surfaceCapabilities.currentExtent
    ELSE [width  |-> StdClamp(m_windowExtent.width,
                              surfaceCapabilities.minImageExtent.width,
                              surfaceCapabilities.maxImageExtent.width),
          height |-> StdClamp(m_windowExtent.height,
                              surfaceCapabilities.minImageExtent.height,
                              surfaceCapabilities.maxImageExtent.height)]

\* The values swapChainImagesCount can take: minImageCount + 1 in uint32_t
\* arithmetic, through std::clamp with minImageCount and maxImageCount.
SwapChainImagesCountOutcomes(surfaceCapabilities) ==
    StdClampOutcomes((surfaceCapabilities.minImageCount + 1) % (2 ^ UintBits),
                     surfaceCapabilities.minImageCount,
                     surfaceCapabilities.maxImageCount)

\* The sharing mode and family list of the VkSwapchainCreateInfoKHR.
SwapchainSharing(qfi) ==
    IF qfi.graphicsFamily # qfi.presentationFamily
    THEN [imageSharingMode      |-> "CONCURRENT",
          queueFamilyIndices    |-> <<ValueOf(qfi.graphicsFamily),
                                      ValueOf(qfi.presentationFamily)>>]
    ELSE [imageSharingMode      |-> "EXCLUSIVE",
          queueFamilyIndices    |-> <<>>]

(***************************************************************************)
(* The devices the selection runs enumerate                                *)
(***************************************************************************)
ApiVersions ==
    {VK_MAKE_API_VERSION(major, minor, 0) : major \in 0 .. MaxMajor,
                                            minor \in 0 .. MaxMinor}

\* One family for everything; graphics and presentation on different
\* families; a family of its own for each role; no presentation; no
\* transfer flag; no family at all.
FamiliesUnified ==
    <<[queueFlags |-> {"GRAPHICS", "TRANSFER"}, presentationSupport |-> TRUE]>>
FamiliesSplit ==
    <<[queueFlags |-> {"TRANSFER"}, presentationSupport |-> TRUE],
      [queueFlags |-> {"GRAPHICS", "TRANSFER"}, presentationSupport |-> FALSE]>>
FamiliesPerRole ==
    <<[queueFlags |-> {}, presentationSupport |-> TRUE],
      [queueFlags |-> {"TRANSFER"}, presentationSupport |-> FALSE],
      [queueFlags |-> {"GRAPHICS"}, presentationSupport |-> FALSE]>>
FamiliesNoPresentation ==
    <<[queueFlags |-> {"GRAPHICS", "TRANSFER"}, presentationSupport |-> FALSE]>>
FamiliesNoTransfer ==
    <<[queueFlags |-> {"GRAPHICS"}, presentationSupport |-> TRUE]>>

FormatBGRA == [format |-> "B8G8R8A8_UNORM", colorSpace |-> "SRGB_NONLINEAR"]
FormatRGBA == [format |-> "R8G8B8A8_UNORM", colorSpace |-> "SRGB_NONLINEAR"]

CapsDesktop ==
    [minImageCount  |-> 2, maxImageCount |-> 8,
     currentExtent  |-> [width |-> 800, height |-> 600],
     minImageExtent |-> [width |-> 1, height |-> 1],
     maxImageExtent |-> [width |-> 4096, height |-> 4096]]
CapsFixed ==
    [minImageCount  |-> 2, maxImageCount |-> 2,
     currentExtent  |-> [width |-> 640, height |-> 480],
     minImageExtent |-> [width |-> 640, height |-> 480],
     maxImageExtent |-> [width |-> 640, height |-> 480]]

SurfaceDesktop ==
    [caps |-> CapsDesktop, formats |-> <<FormatBGRA>>, modes |-> <<"FIFO">>]
SurfaceFixed ==
    [caps |-> CapsFixed, formats |-> <<FormatRGBA, FormatBGRA>>,
     modes |-> <<"FIFO", "MAILBOX">>]
SurfaceNoFormats ==
    [caps |-> CapsFixed, formats |-> <<>>, modes |-> <<"FIFO">>]
SurfaceNoModes ==
    [caps |-> CapsFixed, formats |-> <<FormatRGBA>>, modes |-> <<>>]

Device(apiVersion, deviceType, features, families, extensions, surface) ==
    [apiVersion            |-> apiVersion,
     deviceType            |-> deviceType,
     features              |-> features,
     queueFamilyProperties |-> families,
     extensions            |-> extensions,
     surfaceCapabilities   |-> surface.caps,
     surfaceFormats        |-> surface.formats,
     presentationModes     |-> surface.modes]

\* Devices that differ from a Vulkan 1.3 device with every feature, every
\* role, the swapchain extension and a usable surface in one respect each,
\* and the usable devices in their type, families and surface.
DeviceSpace ==
    {Device(VK_MAKE_API_VERSION(1, 3, 0), t, RequiredFeatureNames, f,
            {"VK_KHR_swapchain", "VK_KHR_maintenance1"}, s) :
         t \in {"DISCRETE_GPU", "INTEGRATED_GPU"},
         f \in {FamiliesUnified, FamiliesSplit, FamiliesPerRole},
         s \in {SurfaceDesktop, SurfaceFixed}}
    \cup
    {Device(v, "DISCRETE_GPU", RequiredFeatureNames, FamiliesUnified,
            {"VK_KHR_swapchain"}, SurfaceDesktop) : v \in ApiVersions}
    \cup
    {Device(VK_MAKE_API_VERSION(1, 3, 0), "DISCRETE_GPU",
            RequiredFeatureNames \ {missing}, FamiliesSplit,
            {"VK_KHR_swapchain"}, SurfaceFixed) : missing \in RequiredFeatureNames}
    \cup
    {Device(VK_MAKE_API_VERSION(1, 3, 0), "DISCRETE_GPU", RequiredFeatureNames, f,
            {"VK_KHR_swapchain"}, SurfaceFixed) :
         f \in {<<>>, FamiliesNoPresentation, FamiliesNoTransfer}}
    \cup
    {Device(VK_MAKE_API_VERSION(1, 3, 0), "DISCRETE_GPU", RequiredFeatureNames,
            FamiliesSplit, e, SurfaceFixed) : e \in {{}, {"VK_KHR_maintenance1"}}}
    \cup
    {Device(VK_MAKE_API_VERSION(1, 3, 0), "DISCRETE_GPU", RequiredFeatureNames,
            FamiliesSplit, {"VK_KHR_swapchain"}, s) :
         s \in {SurfaceNoFormats, SurfaceNoModes}}

(***************************************************************************)
(* Swapchain members before create_vulkan_swapchain                        *)
(***************************************************************************)
IndeterminateExtent == [indeterminate |-> TRUE]

NoSwapchainCreateInfo == [sType |-> "none"]

\* FRAME_OVERLAP (vk_engine.h): the frames in flight, one command pool each.
FRAME_OVERLAP == 2

\* The VulkanEngine objects of the process.
EngineObjects == {1, 2}

\* The value of the global loadedEngine when it points to no engine.
nullptr == 0

\* m_useValidationLayers: true unless the build defines NDEBUG.
m_useValidationLayers == ~ndebug

\* The members of an engine object after construction.  m_frameData has no
\* initialiser in the header; init_commands writes it before cleanup reads it.
FreshEngine ==
    [m_isInitialized           |-> FALSE,
     m_window                  |-> nullptr,
     m_vulkanInstance          |-> VK_NULL_HANDLE,
     m_vulkanDebugMessenger    |-> VK_NULL_HANDLE,
     m_vulkanSurface           |-> VK_NULL_HANDLE,
     m_vulkanPhysicalDevice    |-> VK_NULL_HANDLE,
     m_queueFamilyIndices      |-> EmptyQueueFamilyIndices,
     m_swapChainSupportDetails |-> DefaultMemberSwapChainSupportDetails,
     m_vulkanLogicalDevice     |-> VK_NULL_HANDLE,
     m_vulkanSwapchainKHR      |-> VK_NULL_HANDLE,
     m_swapchainImageViews     |-> <<>>,
     m_frameData               |-> [i \in 1 .. FRAME_OVERLAP |->
                                       [commandPool       |-> VK_NULL_HANDLE,
                                        mainCommandBuffer |-> VK_NULL_HANDLE]]]

\* run not called.
RunIdle ==
    /\ bQuit = FALSE
    /\ m_stopRendering = FALSE
    /\ runPc = "idle"
    /\ iteration = 0
    /\ polled = 0
    /\ draws = 0
    /\ lastWindowEvent = "none"
    /\ quitPolled = FALSE

\* No init or cleanup call made: the process as it starts, in a debug build.
LifeIdle ==
    /\ ndebug = FALSE
    /\ loadedEngine = nullptr
    /\ engine = [e \in EngineObjects |-> FreshEngine]
    /\ inits = [e \in EngineObjects |-> 0]
    /\ failures = 0
    /\ lifePc = "idle"
    /\ lifeThis = nullptr
    /\ live = {}
    /\ created = [e \in EngineObjects |-> <<>>]
    /\ teardown = [e \in EngineObjects |-> <<>>]
    /\ initOutcome = [e \in EngineObjects |-> "none"]
    /\ destroyedAgain = {}


\* No chooser call in progress.
ChooseIdle ==
    /\ formatList = <<>>
    /\ formatReturned = "none"
    /\ formatPc = "idle"
    /\ modeList = <<>>
    /\ modeDesired = "none"
    /\ modeReturned = "none"
    /\ modePc = "idle"

SwapchainIdle ==
    /\ swapchainCreateInfo = NoSwapchainCreateInfo
    /\ m_vulkanSwapchainKHR = VK_NULL_HANDLE
    /\ m_swapchainExtent2D = IndeterminateExtent
    /\ m_swapchainSurfaceFormat = "indeterminate"
    /\ m_swapchainSurfaceColorspace = "indeterminate"
    /\ m_swapchainImages = <<>>
    /\ m_swapchainImageViews = <<>>
    /\ swapchainPc = "idle"

(***************************************************************************)
(* The selection specification: select_vulkan_physical_device followed by  *)
(* create_vulkan_logical_device, as init_vulkan calls them.                *)
(***************************************************************************)
QueueIdle ==
    /\ queueFamilyProperties = <<>>
    /\ findDedicatedTransferFamily = FALSE
    /\ indices = EmptyQueueFamilyIndices
    /\ familyIdx = 0
    /\ queuePc = "idle"

DeviceNotCreated ==
    /\ deviceQueueCreateInfos = <<>>
    /\ m_vulkanLogicalDevice = VK_NULL_HANDLE
    /\ m_graphicsQueue = VK_NULL_HANDLE
    /\ m_presentationQueue = VK_NULL_HANDLE
    /\ m_transferQueue = VK_NULL_HANDLE

SelectIdle ==
    /\ availablePhysicalDevices = <<>>
    /\ devicesSeen = 0
    /\ physicalDeviceRankings = <<>>
    /\ queueFamilyIndices = EmptyQueueFamilyIndices
    /\ swapchainSupportDetails = ValueInitSwapChainSupportDetails
    /\ m_vulkanPhysicalDevice = VK_NULL_HANDLE
    /\ m_queueFamilyIndices = EmptyQueueFamilyIndices
    /\ m_swapChainSupportDetails = DefaultMemberSwapChainSupportDetails
    /\ selectPc = "idle"
    /\ thrown = "none"
    /\ DeviceNotCreated
    /\ SwapchainIdle

SelectInit ==
    /\ availablePhysicalDevices \in SeqsUpTo(DeviceSpace, MaxDevices)
    /\ devicesSeen = 0
    /\ physicalDeviceRankings = <<>>
    /\ queueFamilyIndices = EmptyQueueFamilyIndices
    /\ swapchainSupportDetails = ValueInitSwapChainSupportDetails
    /\ m_vulkanPhysicalDevice = VK_NULL_HANDLE
    /\ m_queueFamilyIndices = EmptyQueueFamilyIndices
    /\ m_swapChainSupportDetails = DefaultMemberSwapChainSupportDetails
    /\ selectPc = "select"
    /\ thrown = "none"
    /\ DeviceNotCreated
    /\ SwapchainIdle
    /\ ChooseIdle
    /\ LifeIdle
    /\ RunIdle
    /\ QueueIdle

\* One iteration of the range-for at vk_engine.cpp:261-301.
SelectExamineDevice ==
    /\ selectPc = "select"
    /\ devicesSeen < Len(availablePhysicalDevices)
    /\ LET handle == devicesSeen + 1
           after  == ExamineDevice(
                         [queueFamilyIndices      |-> queueFamilyIndices,
                          swapchainSupportDetails |-> swapchainSupportDetails,
                          physicalDeviceRankings  |-> physicalDeviceRankings],
                         handle, availablePhysicalDevices[handle])
       IN /\ queueFamilyIndices' = after.queueFamilyIndices
          /\ swapchainSupportDetails' = after.swapchainSupportDetails
          /\ physicalDeviceRankings' = after.physicalDeviceRankings
          /\ devicesSeen' = handle
    /\ UNCHANGED <<availablePhysicalDevices, m_vulkanPhysicalDevice,
                   m_queueFamilyIndices, m_swapChainSupportDetails, selectPc,
                   thrown>>
    /\ UNCHANGED <<queueVars, deviceVars, swapchainVars>>
    /\ UNCHANGED <<chooseVars, lifeVars, runVars>>

\* After the loop with an empty table: the runtime_error at line 306.
SelectThrowNoSuitableDevice ==
    /\ selectPc = "select"
    /\ devicesSeen = Len(availablePhysicalDevices)
    /\ RankingsEmpty(physicalDeviceRankings)
    /\ selectPc' = "select_failed"
    /\ thrown' = "NoSuitablePhysicalDevice"
    /\ UNCHANGED <<availablePhysicalDevices, devicesSeen, physicalDeviceRankings,
                   queueFamilyIndices, swapchainSupportDetails,
                   m_vulkanPhysicalDevice, m_queueFamilyIndices,
                   m_swapChainSupportDetails>>
    /\ UNCHANGED <<queueVars, deviceVars, swapchainVars>>
    /\ UNCHANGED <<chooseVars, lifeVars, runVars>>

\* After the loop with a non-empty table: lines 323-336.
SelectStoreFirstRanked ==
    /\ selectPc = "select"
    /\ devicesSeen = Len(availablePhysicalDevices)
    /\ ~RankingsEmpty(physicalDeviceRankings)
    /\ m_vulkanPhysicalDevice' = Head(physicalDeviceRankings).device
    /\ m_queueFamilyIndices' = queueFamilyIndices
    /\ m_swapChainSupportDetails' = swapchainSupportDetails
    /\ selectPc' = "selected"
    /\ UNCHANGED <<availablePhysicalDevices, devicesSeen, physicalDeviceRankings,
                   queueFamilyIndices, swapchainSupportDetails, thrown>>
    /\ UNCHANGED <<queueVars, deviceVars, swapchainVars>>
    /\ UNCHANGED <<chooseVars, lifeVars, runVars>>

(***************************************************************************)
(* create_vulkan_logical_device                                            *)
(***************************************************************************)
\* The "Safety check" at the top of create_vulkan_logical_device.
QueueFamilyIndicesNotSet(qfi) == ~isComplete(qfi)

\* The elements of a std::set<uint32_t> in iteration (ascending) order.
RECURSIVE SetInOrder(_)
SetInOrder(S) ==
    IF S = {} THEN <<>>
    ELSE LET least == CHOOSE x \in S : \A y \in S : x <= y
         IN <<least>> \o SetInOrder(S \ {least})

\* Mutant: one request per role, whether or not roles share a family.
QueueCreateInfosPerRole(qfi) ==
    LET ordered == <<ValueOf(qfi.graphicsFamily),
                     ValueOf(qfi.presentationFamily),
                     ValueOf(qfi.transferFamily)>>
    IN [k \in 1 .. Len(ordered) |->
            [queueFamilyIndex |-> ordered[k], queueCount |-> 1]]

\* The VkDeviceQueueCreateInfo list: one entry per element of the std::set
\* built from the three roles.
QueueCreateInfos(qfi) ==
    LET families == qfi.graphicsFamily \cup qfi.presentationFamily
                        \cup qfi.transferFamily
        ordered  == SetInOrder(families)
    IN [k \in 1 .. Len(ordered) |->
            [queueFamilyIndex |-> ordered[k], queueCount |-> 1]]

\* vkGetDeviceQueue(device, family, 0, &queue): queue 0 of the family.
DeviceQueue(family) == [queueFamilyIndex |-> family, queueIndex |-> 0]

\* The safety check fails: the runtime_error at line 356.
LogicalDeviceThrowIndicesNotSet ==
    /\ selectPc = "selected"
    /\ QueueFamilyIndicesNotSet(m_queueFamilyIndices)
    /\ selectPc' = "device_failed"
    /\ thrown' = "QueueFamilyIndicesNotSet"
    /\ UNCHANGED <<availablePhysicalDevices, devicesSeen, physicalDeviceRankings,
                   queueFamilyIndices, swapchainSupportDetails,
                   m_vulkanPhysicalDevice, m_queueFamilyIndices,
                   m_swapChainSupportDetails>>
    /\ UNCHANGED <<queueVars, deviceVars, swapchainVars>>
    /\ UNCHANGED <<chooseVars, lifeVars, runVars>>

\* Lines 359-417: the requests are built, vkCreateDevice succeeds or not,
\* and on success the three queue handles are fetched.
LogicalDeviceCreate ==
    /\ selectPc = "selected"
    /\ ~QueueFamilyIndicesNotSet(m_queueFamilyIndices)
    /\ deviceQueueCreateInfos' = QueueCreateInfos(m_queueFamilyIndices)
    /\ \E result \in {"VK_SUCCESS", "VK_ERROR_INITIALIZATION_FAILED"} :
          IF result = "VK_SUCCESS"
          THEN /\ m_vulkanLogicalDevice' = 1
               /\ m_graphicsQueue' =
                      DeviceQueue(ValueOf(m_queueFamilyIndices.graphicsFamily))
               /\ m_presentationQueue' =
                      DeviceQueue(ValueOf(m_queueFamilyIndices.presentationFamily))
               /\ m_transferQueue' =
                      DeviceQueue(ValueOf(m_queueFamilyIndices.transferFamily))
               /\ selectPc' = "device_created"
               /\ thrown' = thrown
          ELSE /\ selectPc' = "device_failed"
               /\ thrown' = "LogicalDeviceCreation"
               /\ UNCHANGED <<m_vulkanLogicalDevice, m_graphicsQueue,
                              m_presentationQueue, m_transferQueue>>
    /\ UNCHANGED <<availablePhysicalDevices, devicesSeen, physicalDeviceRankings,
                   queueFamilyIndices, swapchainSupportDetails,
                   m_vulkanPhysicalDevice, m_queueFamilyIndices,
                   m_swapChainSupportDetails>>
    /\ UNCHANGED <<queueVars, swapchainVars>>
    /\ UNCHANGED <<chooseVars, lifeVars, runVars>>

SelectNext ==
    \/ SelectExamineDevice
    \/ SelectThrowNoSuitableDevice
    \/ SelectStoreFirstRanked
    \/ LogicalDeviceThrowIndicesNotSet
    \/ LogicalDeviceCreate

SpecSelect == SelectInit /\ [][SelectNext]_vars

(***************************************************************************)
(* The swapchain specification: create_vulkan_swapchain on an engine whose *)
(* logical device exists, from the snapshot and roles stored before.       *)
(***************************************************************************)
\* Image-count limits a surface reports: minImageCount at least 1, and
\* maxImageCount either 0 (no limit) or at least minImageCount.
ImageCountLimits ==
    {<<lo, hi>> \in (1 .. MaxImages) \X (0 .. MaxImages) : hi = 0 \/ lo <= hi}

\* Extent limits (lower, upper) around, below and above the window's
\* 800 x 600.
WidthLimits == {<<1, 640>>, <<1, 4096>>, <<1024, 4096>>}
HeightLimits == {<<1, 480>>, <<1, 4096>>, <<768, 4096>>}

CurrentExtents ==
    {[width |-> UINT32_MAX, height |-> UINT32_MAX],
     [width |-> 640, height |-> UINT32_MAX],
     [width |-> 640, height |-> 480],
     [width |-> 1024, height |-> 768]}

SurfaceCapabilitiesSpace ==
    {[minImageCount  |-> n[1], maxImageCount |-> n[2],
      currentExtent  |-> c,
      minImageExtent |-> [width |-> w[1], height |-> h[1]],
      maxImageExtent |-> [width |-> w[2], height |-> h[2]]] :
         n \in ImageCountLimits, c \in CurrentExtents,
         w \in WidthLimits, h \in HeightLimits}

FormatBGRALinear == [format |-> "B8G8R8A8_UNORM", colorSpace |-> "EXTENDED_SRGB_LINEAR"]

SurfaceFormatLists ==
    {<<>>, <<FormatBGRA>>, <<FormatRGBA>>, <<FormatRGBA, FormatBGRA>>,
     <<FormatBGRALinear, FormatRGBA>>}

PresentModeLists ==
    {<<"FIFO">>, <<"FIFO", "MAILBOX">>, <<"MAILBOX", "IMMEDIATE">>}

SwapchainInit ==
    /\ m_swapChainSupportDetails \in
           [surfaceCapabilities : SurfaceCapabilitiesSpace,
            surfaceFormats      : SurfaceFormatLists,
            presentationModes   : PresentModeLists]
    /\ m_queueFamilyIndices \in
           {find_required_queue_families(f, m_useDedicatedTransferQueueFamily) :
                f \in {FamiliesUnified, FamiliesSplit}}
    /\ m_vulkanLogicalDevice = 1
    /\ swapchainCreateInfo = NoSwapchainCreateInfo
    /\ m_vulkanSwapchainKHR = VK_NULL_HANDLE
    /\ m_swapchainExtent2D = IndeterminateExtent
    /\ m_swapchainSurfaceFormat = "indeterminate"
    /\ m_swapchainSurfaceColorspace = "indeterminate"
    /\ m_swapchainImages = <<>>
    /\ m_swapchainImageViews = <<>>
    /\ swapchainPc = "create"
    /\ thrown = "none"
    /\ availablePhysicalDevices = <<>>
    /\ devicesSeen = 0
    /\ physicalDeviceRankings = <<>>
    /\ queueFamilyIndices = EmptyQueueFamilyIndices
    /\ swapchainSupportDetails = ValueInitSwapChainSupportDetails
    /\ m_vulkanPhysicalDevice = 1
    /\ selectPc = "idle"
    /\ deviceQueueCreateInfos = <<>>
    /\ m_graphicsQueue = VK_NULL_HANDLE
    /\ m_presentationQueue = VK_NULL_HANDLE
    /\ m_transferQueue = VK_NULL_HANDLE
    /\ QueueIdle
    /\ ChooseIdle
    /\ LifeIdle
    /\ RunIdle

\* choose_swapchain_surface_format on an empty list: at(0) throws.
SwapchainThrowNoFormat ==
    /\ swapchainPc = "create"
    /\ m_swapChainSupportDetails.surfaceFormats = <<>>
    /\ swapchainPc' = "failed"
    /\ thrown' = "out_of_range"
    /\ UNCHANGED <<swapchainCreateInfo, m_vulkanSwapchainKHR, m_swapchainExtent2D,
                   m_swapchainSurfaceFormat, m_swapchainSurfaceColorspace,
                   m_swapchainImages, m_swapchainImageViews>>
    /\ UNCHANGED <<availablePhysicalDevices, devicesSeen, physicalDeviceRankings,
                   queueFamilyIndices, swapchainSupportDetails,
                   m_vulkanPhysicalDevice, m_queueFamilyIndices,
                   m_swapChainSupportDetails, selectPc>>
    /\ UNCHANGED <<queueVars, deviceVars>>
    /\ UNCHANGED <<chooseVars, lifeVars, runVars>>

\* std::clamp called with maxImageCount < minImageCount in a build whose
\* library asserts the precondition: the process is aborted.
SwapchainClampAbort ==
    /\ swapchainPc = "create"
    /\ m_swapChainSupportDetails.surfaceFormats # <<>>
    /\ m_swapChainSupportDetails.surfaceCapabilities.maxImageCount
           < m_swapChainSupportDetails.surfaceCapabilities.minImageCount
    /\ swapchainPc' = "aborted"
    /\ UNCHANGED <<swapchainCreateInfo, m_vulkanSwapchainKHR, m_swapchainExtent2D,
                   m_swapchainSurfaceFormat, m_swapchainSurfaceColorspace,
                   m_swapchainImages, m_swapchainImageViews>>
    /\ UNCHANGED <<selectVars, queueVars, deviceVars>>
    /\ UNCHANGED <<chooseVars, lifeVars, runVars>>

\* Lines 423-480: the choices, the create info, vkCreateSwapchainKHR, and on
\* success the members, the images and the resized (empty) view list.
SwapchainCreate ==
    /\ swapchainPc = "create"
    /\ m_swapChainSupportDetails.surfaceFormats # <<>>
    /\ LET details       == m_swapChainSupportDetails
           surfaceFormat == choose_swapchain_surface_format(details.surfaceFormats)
           presentMode   == choose_swapchain_present_mode(details.presentationModes,
                                                          "FIFO")
           extent        == choose_swapchain_extent_2D(details.surfaceCapabilities)
           sharing       == SwapchainSharing(m_queueFamilyIndices)
       IN \E count \in SwapChainImagesCountOutcomes(details.surfaceCapabilities) :
             /\ swapchainCreateInfo' =
                    [sType              |-> "SWAPCHAIN_CREATE_INFO_KHR",
                     minImageCount      |-> count,
                     imageFormat        |-> surfaceFormat.format,
                     imageColorSpace    |-> surfaceFormat.colorSpace,
                     imageExtent        |-> extent,
                     imageSharingMode   |-> sharing.imageSharingMode,
                     queueFamilyIndices |-> sharing.queueFamilyIndices,
                     presentMode        |-> presentMode]
             /\ \/ /\ thrown' = "SwapchainCreation"
                   /\ swapchainPc' = "failed"
                   /\ UNCHANGED <<m_vulkanSwapchainKHR, m_swapchainExtent2D,
                                  m_swapchainSurfaceFormat,
                                  m_swapchainSurfaceColorspace, m_swapchainImages,
                                  m_swapchainImageViews>>
                \/ \E images \in {count, count + 1} :
                      /\ m_vulkanSwapchainKHR' = 1
                      /\ m_swapchainExtent2D' = extent
                      /\ m_swapchainSurfaceFormat' = surfaceFormat.format
                      /\ m_swapchainSurfaceColorspace' = surfaceFormat.colorSpace
                      /\ m_swapchainImages' = [k \in 1 .. images |-> k]
                      /\ m_swapchainImageViews' =
                             [k \in 1 .. images |-> VK_NULL_HANDLE]
                      /\ swapchainPc' = IF images = 0 THEN "created" ELSE "views"
                      /\ thrown' = thrown
    /\ UNCHANGED <<availablePhysicalDevices, devicesSeen, physicalDeviceRankings,
                   queueFamilyIndices, swapchainSupportDetails,
                   m_vulkanPhysicalDevice, m_queueFamilyIndices,
                   m_swapChainSupportDetails, selectPc>>
    /\ UNCHANGED <<queueVars, deviceVars>>
    /\ UNCHANGED <<chooseVars, lifeVars, runVars>>

\* The views created so far: the loop at lines 481-488 fills them in order.
ViewsCreated ==
    Cardinality({k \in 1 .. Len(m_swapchainImageViews) :
                     m_swapchainImageViews[k] # VK_NULL_HANDLE})

\* One iteration of the image-view loop: create_image_view succeeds, or
\* throws its runtime_error.
SwapchainCreateImageView ==
    /\ swapchainPc = "views"
    /\ LET i == ViewsCreated + 1
       IN \/ /\ m_swapchainImageViews' = [m_swapchainImageViews EXCEPT ![i] = i]
             /\ swapchainPc' = IF i = Len(m_swapchainImageViews)
                               THEN "created" ELSE "views"
             /\ thrown' = thrown
          \/ /\ thrown' = "ImageViewCreation"
             /\ swapchainPc' = "failed"
             /\ UNCHANGED m_swapchainImageViews
    /\ UNCHANGED <<swapchainCreateInfo, m_vulkanSwapchainKHR, m_swapchainExtent2D,
                   m_swapchainSurfaceFormat, m_swapchainSurfaceColorspace,
                   m_swapchainImages>>
    /\ UNCHANGED <<availablePhysicalDevices, devicesSeen, physicalDeviceRankings,
                   queueFamilyIndices, swapchainSupportDetails,
                   m_vulkanPhysicalDevice, m_queueFamilyIndices,
                   m_swapChainSupportDetails, selectPc>>
    /\ UNCHANGED <<queueVars, deviceVars>>
    /\ UNCHANGED <<chooseVars, lifeVars, runVars>>

SwapchainNext ==
    \/ SwapchainThrowNoFormat
    \/ SwapchainClampAbort
    \/ SwapchainCreate
    \/ SwapchainCreateImageView

SpecSwapchain == SwapchainInit /\ [][SwapchainNext]_vars

(***************************************************************************)
(* The queue-family specification: one call of                             *)
(* find_required_queue_families, one action per loop iteration.            *)
(***************************************************************************)
QueueInit ==
    /\ queueFamilyProperties \in SeqsUpTo(QueueFamilySpace, MaxFamilies)
    /\ findDedicatedTransferFamily \in BOOLEAN
    /\ indices = EmptyQueueFamilyIndices
    /\ familyIdx = 0
    /\ queuePc = "scan"
    /\ SelectIdle
    /\ ChooseIdle
    /\ LifeIdle
    /\ RunIdle

\* One iteration of the for loop at vk_engine.cpp:526-559.
QueueScanIteration ==
    /\ queuePc = "scan"
    /\ familyIdx < Len(queueFamilyProperties)
    /\ LET n == ScanFamily(indices, familyIdx,
                           queueFamilyProperties[familyIdx + 1],
                           findDedicatedTransferFamily)
       IN /\ indices' = n
          /\ IF isComplete(n)
             THEN queuePc' = "after" /\ familyIdx' = familyIdx
             ELSE queuePc' = "scan" /\ familyIdx' = familyIdx + 1
    /\ UNCHANGED <<queueFamilyProperties, findDedicatedTransferFamily>>
    /\ UNCHANGED <<selectVars, deviceVars, swapchainVars>>
    /\ UNCHANGED <<chooseVars, lifeVars, runVars>>

\* Loop exit (by break or by exhausting the list), fallback and return.
QueueFallbackReturn ==
    /\ \/ queuePc = "after"
       \/ queuePc = "scan" /\ familyIdx >= Len(queueFamilyProperties)
    /\ indices' = TransferFallback(indices, findDedicatedTransferFamily)
    /\ queuePc' = "returned"
    /\ UNCHANGED <<queueFamilyProperties, findDedicatedTransferFamily, familyIdx>>
    /\ UNCHANGED <<selectVars, deviceVars, swapchainVars>>
    /\ UNCHANGED <<chooseVars, lifeVars, runVars>>

QueueNext == QueueScanIteration \/ QueueFallbackReturn

SpecQueue == QueueInit /\ [][QueueNext]_vars

(***************************************************************************)
(* The surface-format specification: one call of                           *)
(* choose_swapchain_surface_format on a list of reported formats.          *)
(***************************************************************************)
FormatRGBALinear == [format |-> "R8G8B8A8_UNORM", colorSpace |-> "EXTENDED_SRGB_LINEAR"]

\* The VkSurfaceFormatKHR values a surface reports in the chooser runs.
SurfaceFormatSpace == {FormatBGRA, FormatRGBA, FormatBGRALinear, FormatRGBALinear}

FormatInit ==
    /\ formatList \in SeqsUpTo(SurfaceFormatSpace, MaxFormats)
    /\ formatReturned = "none"
    /\ formatPc = "called"
    /\ modeList = <<>>
    /\ modeDesired = "none"
    /\ modeReturned = "none"
    /\ modePc = "idle"
    /\ QueueIdle
    /\ SelectIdle
    /\ LifeIdle
    /\ RunIdle

\* The loop finds the preferred entry, or at(0) yields the first one.
FormatReturn ==
    /\ formatPc = "called"
    /\ formatList # <<>>
    /\ formatReturned' = choose_swapchain_surface_format(formatList)
    /\ formatPc' = "returned"
    /\ UNCHANGED <<formatList, modeList, modeDesired, modeReturned, modePc>>
    /\ UNCHANGED <<queueVars, selectVars, deviceVars, swapchainVars, lifeVars,
                   runVars>>

\* The loop finds nothing in an empty list and at(0) throws std::out_of_range.
FormatThrowOutOfRange ==
    /\ formatPc = "called"
    /\ formatList = <<>>
    /\ formatPc' = "thrown"
    /\ UNCHANGED <<formatList, formatReturned, modeList, modeDesired,
                   modeReturned, modePc>>
    /\ UNCHANGED <<queueVars, selectVars, deviceVars, swapchainVars, lifeVars,
                   runVars>>

FormatNext == FormatReturn \/ FormatThrowOutOfRange

SpecFormat == FormatInit /\ [][FormatNext]_vars

(***************************************************************************)
(* The present-mode specification: one call of                             *)
(* choose_swapchain_present_mode on a list of supported modes and a        *)
(* desired mode.                                                           *)
(***************************************************************************)
\* The VkPresentModeKHR values of the chooser runs.
PresentModeSpace == {"IMMEDIATE", "MAILBOX", "FIFO", "FIFO_RELAXED"}

PresentModeInit ==
    /\ modeList \in SeqsUpTo(PresentModeSpace, MaxModes)
    /\ modeDesired \in PresentModeSpace
    /\ modeReturned = "none"
    /\ modePc = "called"
    /\ formatList = <<>>
    /\ formatReturned = "none"
    /\ formatPc = "idle"
    /\ QueueIdle
    /\ SelectIdle
    /\ LifeIdle
    /\ RunIdle

PresentModeReturn ==
    /\ modePc = "called"
    /\ modeReturned' = choose_swapchain_present_mode(modeList, modeDesired)
    /\ modePc' = "returned"
    /\ UNCHANGED <<modeList, modeDesired, formatList, formatReturned, formatPc>>
    /\ UNCHANGED <<queueVars, selectVars, deviceVars, swapchainVars, lifeVars,
                   runVars>>

PresentModeNext == PresentModeReturn

SpecPresentMode == PresentModeInit /\ [][PresentModeNext]_vars

(***************************************************************************)
(* The lifecycle specification: init and cleanup calls on the engine       *)
(* objects of one process, one call at a time.  A handle is the number of  *)
(* the init call that created it (VK_NULL_HANDLE before any); a resource   *)
(* is <<kind, engine, init call, index>>.                                  *)
(***************************************************************************)
\* The device lists vkEnumeratePhysicalDevices returns in the lifecycle runs:
\* an integrated and a discrete usable GPU, or one GPU without the swapchain
\* extension.
LifeSystems ==
    {<<Device(VK_MAKE_API_VERSION(1, 3, 0), "INTEGRATED_GPU", RequiredFeatureNames,
              FamiliesUnified, {"VK_KHR_swapchain"}, SurfaceFixed),
       Device(VK_MAKE_API_VERSION(1, 3, 0), "DISCRETE_GPU", RequiredFeatureNames,
              FamiliesSplit, {"VK_KHR_swapchain"}, SurfaceFixed)>>,
     <<Device(VK_MAKE_API_VERSION(1, 3, 0), "DISCRETE_GPU", RequiredFeatureNames,
              FamiliesUnified, {"VK_KHR_maintenance1"}, SurfaceFixed)>>}

\* The steps of init in call order: the body of init and, inlined, the body
\* of init_vulkan (init_swapchain and init_sync_structures are empty).
\* Mutant: the surface is created before the instance.
InitStagesSurfaceFirst ==
    <<"create_window", "get_sdl_vulkan_extensions",
      "create_sdl_vulkan_surface", "create_vulkan_instance",
      "setup_vulkan_debug_messenger", "select_vulkan_physical_device",
      "create_vulkan_logical_device", "create_vulkan_swapchain",
      "init_commands">>

InitStages ==
    <<"create_window", "get_sdl_vulkan_extensions",
      "create_vulkan_instance", "setup_vulkan_debug_messenger",
      "create_sdl_vulkan_surface", "select_vulkan_physical_device",
      "create_vulkan_logical_device", "create_vulkan_swapchain",
      "init_commands">>

\* The step init runs after the given one returns; "return" after the last.
StageAfter(stage) ==
    LET k == CHOOSE i \in 1 .. Len(InitStages) : InitStages[i] = stage
    IN IF k = Len(InitStages) THEN "return" ELSE InitStages[k + 1]

\* The whole range-for of select_vulkan_physical_device over a device list.
RECURSIVE ExamineFrom(_, _, _)
ExamineFrom(locals, devices, handle) ==
    IF handle > Len(devices) THEN locals
    ELSE ExamineFrom(ExamineDevice(locals, handle, devices[handle]),
                     devices, handle + 1)

\* The elements of a sequence.
Range(s) == {s[k] : k \in 1 .. Len(s)}

\* The live resources of an engine object.
LiveOf(e) == {r \in live : r[2] = e}

\* The init calls made so far on the engines of S.
RECURSIVE InitsOn(_)
InitsOn(S) ==
    IF S = {} THEN 0
    ELSE LET e == CHOOSE x \in S : TRUE
         IN inits[e] + InitsOn(S \ {e})

\* The number of the init call in progress: handles it creates carry it.
CurrentInit == InitsOn(EngineObjects)

\* A step of init returns normally: members written, resources created, and
\* init goes on to the next step, or returns after the last one with
\* m_isInitialized set (vk_engine.cpp:57).
StageReturns(stage, members, resources, nowLive) ==
    /\ engine' = [engine EXCEPT ![lifeThis] =
                     IF StageAfter(stage) = "return"
                     THEN [members EXCEPT !.m_isInitialized = TRUE]
                     ELSE members]
    /\ created' = [created EXCEPT ![lifeThis] = @ \o resources]
    /\ live' = live \cup nowLive
    /\ lifePc' = IF StageAfter(stage) = "return" THEN "idle" ELSE StageAfter(stage)
    /\ initOutcome' = IF StageAfter(stage) = "return"
                      THEN [initOutcome EXCEPT ![lifeThis] = "succeeded"]
                      ELSE initOutcome
    /\ UNCHANGED <<failures, thrown>>

\* A step of init throws: what it wrote and created before stays, and the
\* exception leaves init.
StageThrows(message, members, resources, nowLive) ==
    /\ engine' = [engine EXCEPT ![lifeThis] = members]
    /\ created' = [created EXCEPT ![lifeThis] = @ \o resources]
    /\ live' = live \cup nowLive
    /\ lifePc' = "idle"
    /\ thrown' = message
    /\ initOutcome' = [initOutcome EXCEPT ![lifeThis] = "failed"]

\* A call into SDL or the driver may fail while the runs' failure budget lasts.
MayFail == failures < MaxFailures

\* The variables the lifecycle leaves at rest, and those an init step keeps.
LifeRest ==
    UNCHANGED <<queueVars, deviceVars, swapchainVars, chooseVars,
                devicesSeen, physicalDeviceRankings, queueFamilyIndices,
                swapchainSupportDetails, m_vulkanPhysicalDevice,
                m_queueFamilyIndices, m_swapChainSupportDetails, selectPc,
                availablePhysicalDevices, ndebug, runVars>>

StageKeeps == UNCHANGED <<loadedEngine, inits, lifeThis, teardown,
                          destroyedAgain>>

LifeInit ==
    /\ ndebug \in BOOLEAN
    /\ availablePhysicalDevices \in LifeSystems
    /\ loadedEngine = nullptr
    /\ engine = [e \in EngineObjects |-> FreshEngine]
    /\ inits = [e \in EngineObjects |-> 0]
    /\ failures = 0
    /\ lifePc = "idle"
    /\ lifeThis = nullptr
    /\ live = {}
    /\ created = [e \in EngineObjects |-> <<>>]
    /\ teardown = [e \in EngineObjects |-> <<>>]
    /\ initOutcome = [e \in EngineObjects |-> "none"]
    /\ destroyedAgain = {}
    /\ devicesSeen = 0
    /\ physicalDeviceRankings = <<>>
    /\ queueFamilyIndices = EmptyQueueFamilyIndices
    /\ swapchainSupportDetails = ValueInitSwapChainSupportDetails
    /\ m_vulkanPhysicalDevice = VK_NULL_HANDLE
    /\ m_queueFamilyIndices = EmptyQueueFamilyIndices
    /\ m_swapChainSupportDetails = DefaultMemberSwapChainSupportDetails
    /\ selectPc = "idle"
    /\ thrown = "none"
    /\ DeviceNotCreated
    /\ SwapchainIdle
    /\ QueueIdle
    /\ ChooseIdle
    /\ RunIdle

\* init() is called on an engine while loadedEngine is set, in a build whose
\* assert is active: the process is aborted (vk_engine.cpp:27).
LifeInitAssertFails ==
    /\ lifePc = "idle"
    /\ CurrentInit < MaxInits
    /\ ~ndebug
    /\ loadedEngine # nullptr
    /\ \E e \in EngineObjects :
          /\ lifeThis' = e
          /\ inits' = [inits EXCEPT ![e] = @ + 1]
    /\ lifePc' = "aborted"
    /\ UNCHANGED <<loadedEngine, engine, failures, live, created, teardown,
                   initOutcome, thrown, destroyedAgain>>
    /\ LifeRest

\* init() is entered: the assert passes or is compiled out, and loadedEngine
\* is set (vk_engine.cpp:27-28).
LifeInitEnter ==
    /\ lifePc = "idle"
    /\ CurrentInit < MaxInits
    /\ ndebug \/ loadedEngine = nullptr
    /\ \E e \in EngineObjects :
          /\ lifeThis' = e
          /\ loadedEngine' = e
          /\ inits' = [inits EXCEPT ![e] = @ + 1]
          /\ created' = [created EXCEPT ![e] = <<>>]
          /\ teardown' = [teardown EXCEPT ![e] = <<>>]
          /\ initOutcome' = [initOutcome EXCEPT ![e] = "running"]
    /\ lifePc' = InitStages[1]
    /\ thrown' = "none"
    /\ UNCHANGED <<engine, failures, live, destroyedAgain>>
    /\ LifeRest

\* SDL_Init and SDL_CreateWindow (vk_engine.cpp:31-44): m_window is assigned
\* the new window, or nullptr and the runtime_error follows.
LifeCreateWindow ==
    /\ lifePc = "create_window"
    /\ LET window == <<"window", lifeThis, CurrentInit, 0>>
       IN \/ /\ StageReturns("create_window",
                             [engine[lifeThis] EXCEPT !.m_window = CurrentInit],
                             <<window>>, {window})
          \/ /\ MayFail
             /\ failures' = failures + 1
             /\ StageThrows("SdlWindowCreation",
                            [engine[lifeThis] EXCEPT !.m_window = nullptr],
                            <<>>, {})
    /\ StageKeeps
    /\ LifeRest

\* get_sdl_vulkan_extensions (vk_engine.cpp:719-734).
LifeGetSdlVulkanExtensions ==
    /\ lifePc = "get_sdl_vulkan_extensions"
    /\ \/ StageReturns("get_sdl_vulkan_extensions", engine[lifeThis], <<>>, {})
       \/ /\ MayFail
          /\ failures' = failures + 1
          /\ StageThrows("SdlVulkanExtensions", engine[lifeThis], <<>>, {})
    /\ StageKeeps
    /\ LifeRest

\* create_vulkan_instance (vk_engine.cpp:163-211): the validation layers are
\* missing in a build that asks for them, or vkCreateInstance fails, or the
\* instance is created.
LifeCreateInstance ==
    /\ lifePc = "create_vulkan_instance"
    /\ LET instance == <<"instance", lifeThis, CurrentInit, 0>>
       IN \/ StageReturns("create_vulkan_instance",
                          [engine[lifeThis] EXCEPT !.m_vulkanInstance = CurrentInit],
                          <<instance>>, {instance})
          \/ /\ MayFail
             /\ failures' = failures + 1
             /\ \E message \in
                    IF m_useValidationLayers
                    THEN {"ValidationLayersUnsupported", "InstanceCreation"}
                    ELSE {"InstanceCreation"} :
                   StageThrows(message, engine[lifeThis], <<>>, {})
    /\ StageKeeps
    /\ LifeRest

\* setup_vulkan_debug_messenger (vk_engine.cpp:213-225): nothing without
\* validation layers.
LifeSetupDebugMessenger ==
    /\ lifePc = "setup_vulkan_debug_messenger"
    /\ LET messenger == <<"debug_messenger", lifeThis, CurrentInit, 0>>
       IN IF ~m_useValidationLayers
          THEN StageReturns("setup_vulkan_debug_messenger", engine[lifeThis],
                            <<>>, {})
          ELSE \/ StageReturns("setup_vulkan_debug_messenger",
                               [engine[lifeThis] EXCEPT
                                    !.m_vulkanDebugMessenger = CurrentInit],
                               <<messenger>>, {messenger})
               \/ /\ MayFail
                  /\ failures' = failures + 1
                  /\ StageThrows("DebugMessengerCreation", engine[lifeThis],
                                 <<>>, {})
    /\ StageKeeps
    /\ LifeRest

\* create_sdl_vulkan_surface (vk_engine.cpp:227-233).
LifeCreateSurface ==
    /\ lifePc = "create_sdl_vulkan_surface"
    /\ LET surface == <<"surface", lifeThis, CurrentInit, 0>>
       IN \/ StageReturns("create_sdl_vulkan_surface",
                          [engine[lifeThis] EXCEPT !.m_vulkanSurface = CurrentInit],
                          <<surface>>, {surface})
          \/ /\ MayFail
             /\ failures' = failures + 1
             /\ StageThrows("SurfaceCreation", engine[lifeThis], <<>>, {})
    /\ StageKeeps
    /\ LifeRest

\* select_vulkan_physical_device (vk_engine.cpp:235-350) over the system's
\* devices: the runtime_error of line 306, or the three members stored.  A
\* physical device is not created, so it is logged and never live.
LifeSelectPhysicalDevice ==
    /\ lifePc = "select_vulkan_physical_device"
    /\ LET after == ExamineFrom(
                        [queueFamilyIndices      |-> EmptyQueueFamilyIndices,
                         swapchainSupportDetails |-> ValueInitSwapChainSupportDetails,
                         physicalDeviceRankings  |-> <<>>],
                        availablePhysicalDevices, 1)
       IN IF RankingsEmpty(after.physicalDeviceRankings)
          THEN /\ StageThrows("NoSuitablePhysicalDevice", engine[lifeThis], <<>>, {})
               /\ UNCHANGED failures
          ELSE LET selected == Head(after.physicalDeviceRankings).device
               IN StageReturns(
                      "select_vulkan_physical_device",
                      [engine[lifeThis] EXCEPT
                           !.m_vulkanPhysicalDevice    = selected,
                           !.m_queueFamilyIndices      = after.queueFamilyIndices,
                           !.m_swapChainSupportDetails = after.swapchainSupportDetails],
                      <<<<"physical_device", lifeThis, CurrentInit, selected>>>>, {})
    /\ StageKeeps
    /\ LifeRest

\* create_vulkan_logical_device (vk_engine.cpp:352-419): the safety check,
\* then vkCreateDevice.
LifeCreateLogicalDevice ==
    /\ lifePc = "create_vulkan_logical_device"
    /\ LET device == <<"device", lifeThis, CurrentInit, 0>>
       IN IF QueueFamilyIndicesNotSet(engine[lifeThis].m_queueFamilyIndices)
          THEN /\ StageThrows("QueueFamilyIndicesNotSet", engine[lifeThis], <<>>, {})
               /\ UNCHANGED failures
          ELSE \/ StageReturns("create_vulkan_logical_device",
                               [engine[lifeThis] EXCEPT
                                    !.m_vulkanLogicalDevice = CurrentInit],
                               <<device>>, {device})
               \/ /\ MayFail
                  /\ failures' = failures + 1
                  /\ StageThrows("LogicalDeviceCreation", engine[lifeThis],
                                 <<>>, {})
    /\ StageKeeps
    /\ LifeRest

\* The image-view vector after resize(count) and the first `made` views
\* created by this init call: resize keeps what an earlier call left.
ImageViewsAfter(old, count, made, handle) ==
    [k \in 1 .. count |->
        IF k <= made THEN handle
        ELSE IF k <= Len(old) THEN old[k]
        ELSE VK_NULL_HANDLE]

\* create_vulkan_swapchain (vk_engine.cpp:421-490): out_of_range on an empty
\* format list, failure of vkCreateSwapchainKHR, or the swapchain and then
\* one image view per image until one fails (create_image_view, 646-664).
\* The driver makes as many images as were asked for.
LifeCreateSwapchain ==
    /\ lifePc = "create_vulkan_swapchain"
    /\ LET this      == engine[lifeThis]
           details   == this.m_swapChainSupportDetails
           swapchain == <<"swapchain", lifeThis, CurrentInit, 0>>
           view(k)   == <<"image_view", lifeThis, CurrentInit, k>>
       IN IF details.surfaceFormats = <<>>
          THEN /\ StageThrows("out_of_range", this, <<>>, {})
               /\ UNCHANGED failures
          ELSE \/ /\ MayFail
                  /\ failures' = failures + 1
                  /\ StageThrows("SwapchainCreation", this, <<>>, {})
               \/ \E count \in SwapChainImagesCountOutcomes(
                                   details.surfaceCapabilities) :
                     \/ StageReturns(
                            "create_vulkan_swapchain",
                            [this EXCEPT
                                 !.m_vulkanSwapchainKHR = CurrentInit,
                                 !.m_swapchainImageViews =
                                     ImageViewsAfter(@, count, count, CurrentInit)],
                            <<swapchain>> \o [k \in 1 .. count |-> view(k)],
                            {swapchain} \cup {view(k) : k \in 1 .. count})
                     \/ /\ MayFail
                        /\ failures' = failures + 1
                        /\ \E made \in 0 .. (count - 1) :
                              StageThrows(
                                  "ImageViewCreation",
                                  [this EXCEPT
                                       !.m_vulkanSwapchainKHR = CurrentInit,
                                       !.m_swapchainImageViews =
                                           ImageViewsAfter(@, count, made, CurrentInit)],
                                  <<swapchain>> \o [k \in 1 .. made |-> view(k)],
                                  {swapchain} \cup {view(k) : k \in 1 .. made})
    /\ StageKeeps
    /\ LifeRest

\* m_frameData after the loop of init_commands made `pools` command pools and
\* `buffers` command buffers.
FrameDataAfter(old, pools, buffers, handle) ==
    [i \in 1 .. FRAME_OVERLAP |->
        [commandPool       |-> IF i <= pools THEN handle ELSE old[i].commandPool,
         mainCommandBuffer |-> IF i <= buffers THEN handle
                               ELSE old[i].mainCommandBuffer]]

\* What the loop of init_commands created after `pools` pools and `buffers`
\* buffers, in creation order.
CommandsCreated(e, handle, pools, buffers) ==
    [k \in 1 .. (pools + buffers) |->
        IF k % 2 = 1 THEN <<"command_pool", e, handle, (k + 1) \div 2>>
        ELSE <<"command_buffer", e, handle, k \div 2>>]

\* init_commands (vk_engine.cpp:130-156): per frame a command pool, then a
\* command buffer from it; either call may fail.  init_sync_structures is
\* empty, so on success init sets m_isInitialized and returns.
LifeInitCommands ==
    /\ lifePc = "init_commands"
    /\ LET this == engine[lifeThis]
       IN \/ StageReturns(
                 "init_commands",
                 [this EXCEPT !.m_frameData =
                      FrameDataAfter(@, FRAME_OVERLAP, FRAME_OVERLAP, CurrentInit)],
                 CommandsCreated(lifeThis, CurrentInit, FRAME_OVERLAP, FRAME_OVERLAP),
                 Range(CommandsCreated(lifeThis, CurrentInit, FRAME_OVERLAP,
                                       FRAME_OVERLAP)))
          \/ /\ MayFail
             /\ failures' = failures + 1
             /\ \E pools \in 0 .. FRAME_OVERLAP, buffers \in 0 .. FRAME_OVERLAP :
                   /\ buffers < FRAME_OVERLAP
                   /\ pools \in {buffers, buffers + 1}
                   /\ StageThrows(
                          IF pools = buffers THEN "CommandPoolCreation"
                          ELSE "CommandBufferAllocation",
                          [this EXCEPT !.m_frameData =
                               FrameDataAfter(@, pools, buffers, CurrentInit)],
                          CommandsCreated(lifeThis, CurrentInit, pools, buffers),
                          Range(CommandsCreated(lifeThis, CurrentInit, pools,
                                                buffers)))
    /\ StageKeeps
    /\ LifeRest

\* The calls cleanup makes on an initialised engine, in order: the idle
\* wait, cleanup_swapchain, cleanup_command_pools, and the destroy calls of
\* vk_engine.cpp:67-73.
\* Mutant: the logical device is destroyed before the command pools.
TeardownDeviceBeforePools(e, this, validation) ==
    <<<<"wait_idle", e, this.m_vulkanLogicalDevice, 0>>>>
    \o [k \in 1 .. Len(this.m_swapchainImageViews) |->
            <<"image_view", e, this.m_swapchainImageViews[k], k>>]
    \o <<<<"swapchain", e, this.m_vulkanSwapchainKHR, 0>>>>
    \o <<<<"device", e, this.m_vulkanLogicalDevice, 0>>>>
    \o [i \in 1 .. FRAME_OVERLAP |->
            <<"command_pool", e, this.m_frameData[i].commandPool, i>>]
    \o <<<<"surface", e, this.m_vulkanSurface, 0>>>>
    \o (IF validation
        THEN <<<<"debug_messenger", e, this.m_vulkanDebugMessenger, 0>>>>
        ELSE <<>>)
    \o <<<<"instance", e, this.m_vulkanInstance, 0>>>>
    \o <<<<"window", e, this.m_window, 0>>>>

\* Mutant: the command pools are destroyed first, as the last things created.
TeardownPoolsFirst(e, this, validation) ==
    <<<<"wait_idle", e, this.m_vulkanLogicalDevice, 0>>>>
    \o [i \in 1 .. FRAME_OVERLAP |->
            <<"command_pool", e, this.m_frameData[i].commandPool, i>>]
    \o [k \in 1 .. Len(this.m_swapchainImageViews) |->
            <<"image_view", e, this.m_swapchainImageViews[k], k>>]
    \o <<<<"swapchain", e, this.m_vulkanSwapchainKHR, 0>>>>
    \o <<<<"device", e, this.m_vulkanLogicalDevice, 0>>>>
    \o <<<<"surface", e, this.m_vulkanSurface, 0>>>>
    \o (IF validation
        THEN <<<<"debug_messenger", e, this.m_vulkanDebugMessenger, 0>>>>
        ELSE <<>>)
    \o <<<<"instance", e, this.m_vulkanInstance, 0>>>>
    \o <<<<"window", e, this.m_window, 0>>>>

\* Mutant: the surface is never destroyed.
TeardownWithoutSurface(e, this, validation) ==
    <<<<"wait_idle", e, this.m_vulkanLogicalDevice, 0>>>>
    \o [k \in 1 .. Len(this.m_swapchainImageViews) |->
            <<"image_view", e, this.m_swapchainImageViews[k], k>>]
    \o <<<<"swapchain", e, this.m_vulkanSwapchainKHR, 0>>>>
    \o [i \in 1 .. FRAME_OVERLAP |->
            <<"command_pool", e, this.m_frameData[i].commandPool, i>>]
    \o <<<<"device", e, this.m_vulkanLogicalDevice, 0>>>>
    \o (IF validation
        THEN <<<<"debug_messenger", e, this.m_vulkanDebugMessenger, 0>>>>
        ELSE <<>>)
    \o <<<<"instance", e, this.m_vulkanInstance, 0>>>>
    \o <<<<"window", e, this.m_window, 0>>>>

Teardown(e, this, validation) ==
    <<<<"wait_idle", e, this.m_vulkanLogicalDevice, 0>>>>
    \o [k \in 1 .. Len(this.m_swapchainImageViews) |->
            <<"image_view", e, this.m_swapchainImageViews[k], k>>]
    \o <<<<"swapchain", e, this.m_vulkanSwapchainKHR, 0>>>>
    \o [i \in 1 .. FRAME_OVERLAP |->
            <<"command_pool", e, this.m_frameData[i].commandPool, i>>]
    \o <<<<"device", e, this.m_vulkanLogicalDevice, 0>>>>
    \o <<<<"surface", e, this.m_vulkanSurface, 0>>>>
    \o (IF validation
        THEN <<<<"debug_messenger", e, this.m_vulkanDebugMessenger, 0>>>>
        ELSE <<>>)
    \o <<<<"instance", e, this.m_vulkanInstance, 0>>>>
    \o <<<<"window", e, this.m_window, 0>>>>

\* What a sequence of teardown calls destroys: the resources named, and the
\* command buffers of the pools among them.
Destroyed(calls) ==
    {r \in Range(calls) : r[1] # "wait_idle"}
    \cup {<<"command_buffer", r[2], r[3], r[4]>> :
              r \in {p \in Range(calls) : p[1] = "command_pool"}}

\* The teardown calls that name something that is not live: a handle
\* destroyed before, or a wait on a destroyed device.
StaleCalls(calls) ==
    {r \in Range(calls) :
        IF r[1] = "wait_idle" THEN <<"device", r[2], r[3], r[4]>> \notin live
        ELSE r \notin live}

\* The destroy calls among them that name a handle destroyed before
\* (destroying VK_NULL_HANDLE is allowed and does nothing).
DestroyedTwice(calls) ==
    {r \in StaleCalls(calls) : r[1] # "wait_idle" /\ r[3] # VK_NULL_HANDLE}

\* The entry a cleanup call leaves first in the engine's teardown log.
CleanupCalled(e) == <<"cleanup", e, 0, 0>>

\* cleanup() on an engine whose m_isInitialized is false: only loadedEngine
\* is cleared (vk_engine.cpp:61, 76).
LifeCleanupNotInitialized ==
    /\ lifePc = "idle"
    /\ \E e \in EngineObjects :
          /\ ~engine[e].m_isInitialized
          /\ teardown' = [teardown EXCEPT ![e] = <<CleanupCalled(e)>>]
    /\ loadedEngine' = nullptr
    /\ UNCHANGED <<engine, inits, failures, lifePc, lifeThis, live, created,
                   initOutcome, thrown, destroyedAgain>>
    /\ LifeRest

\* cleanup() on an engine whose m_isInitialized is true (vk_engine.cpp:60-77):
\* every teardown call is made on the handles the members hold, and
\* loadedEngine is cleared.  A call on a handle that is not live is undefined
\* behaviour: the process goes on or dies.
LifeCleanup ==
    /\ lifePc = "idle"
    /\ \E e \in EngineObjects :
          /\ engine[e].m_isInitialized
          /\ LET calls == Teardown(e, engine[e], m_useValidationLayers)
             IN /\ teardown' = [teardown EXCEPT ![e] = <<CleanupCalled(e)>> \o calls]
                /\ live' = live \ Destroyed(calls)
                /\ destroyedAgain' = destroyedAgain \cup DestroyedTwice(calls)
                /\ \/ lifePc' = "idle"
                   \/ StaleCalls(calls) # {} /\ lifePc' = "aborted"
    /\ loadedEngine' = nullptr
    /\ UNCHANGED <<engine, inits, failures, lifeThis, created, initOutcome,
                   thrown>>
    /\ LifeRest

LifeNext ==
    \/ LifeInitAssertFails
    \/ LifeInitEnter
    \/ LifeCreateWindow
    \/ LifeGetSdlVulkanExtensions
    \/ LifeCreateInstance
    \/ LifeSetupDebugMessenger
    \/ LifeCreateSurface
    \/ LifeSelectPhysicalDevice
    \/ LifeCreateLogicalDevice
    \/ LifeCreateSwapchain
    \/ LifeInitCommands
    \/ LifeCleanupNotInitialized
    \/ LifeCleanup

SpecLife == LifeInit /\ [][LifeNext]_vars

(***************************************************************************)
(* The frame-loop specification: one call of run on an engine whose        *)
(* m_stopRendering is false, one action per SDL_PollEvent call and per     *)
(* test of the loop condition.                                             *)
(***************************************************************************)
\* The SDL_Event values SDL_PollEvent hands out: e.type and, for a window
\* event, e.window.event.
EventSpace ==
    {[type |-> "SDL_QUIT", event |-> "none"],
     [type |-> "SDL_KEYDOWN", event |-> "none"],
     [type |-> "SDL_WINDOWEVENT", event |-> "SDL_WINDOWEVENT_MINIMIZED"],
     [type |-> "SDL_WINDOWEVENT", event |-> "SDL_WINDOWEVENT_RESTORED"],
     [type |-> "SDL_WINDOWEVENT", event |-> "SDL_WINDOWEVENT_RESIZED"]}

\* Mutant: a key press ends the loop too.
QuitAfterKeyDownToo(quit, e) ==
    IF e.type \in {"SDL_QUIT", "SDL_KEYDOWN"} THEN TRUE ELSE quit

\* bQuit after the body of the inner loop has seen event e.
QuitAfter(quit, e) == IF e.type = "SDL_QUIT" THEN TRUE ELSE quit

\* Mutant: a restored window does not clear the flag.
StopRenderingAfterMinimizedOnly(stop, e) ==
    IF e.type = "SDL_WINDOWEVENT" /\ e.event = "SDL_WINDOWEVENT_MINIMIZED"
    THEN TRUE
    ELSE stop

\* m_stopRendering after the body of the inner loop has seen event e.
StopRenderingAfter(stop, e) ==
    IF e.type = "SDL_WINDOWEVENT"
    THEN IF e.event = "SDL_WINDOWEVENT_RESTORED" THEN FALSE
         ELSE IF e.event = "SDL_WINDOWEVENT_MINIMIZED" THEN TRUE
         ELSE stop
    ELSE stop

RunInit ==
    /\ bQuit = FALSE
    /\ m_stopRendering = FALSE
    /\ runPc = "loop_test"
    /\ iteration = 0
    /\ polled = 0
    /\ draws = 0
    /\ lastWindowEvent = "none"
    /\ quitPolled = FALSE
    /\ QueueIdle
    /\ SelectIdle
    /\ ChooseIdle
    /\ LifeIdle

\* while (!bQuit), with bQuit false: the next iteration begins.
RunLoopEnter ==
    /\ runPc = "loop_test"
    /\ ~bQuit
    /\ iteration < MaxIterations
    /\ iteration' = iteration + 1
    /\ polled' = 0
    /\ runPc' = "poll"
    /\ UNCHANGED <<bQuit, m_stopRendering, draws, lastWindowEvent, quitPolled>>
    /\ UNCHANGED <<queueVars, selectVars, deviceVars, swapchainVars, chooseVars,
                   lifeVars>>

\* while (!bQuit), with bQuit true: run returns.
RunLoopExit ==
    /\ runPc = "loop_test"
    /\ bQuit
    /\ runPc' = "returned"
    /\ UNCHANGED <<bQuit, m_stopRendering, iteration, polled, draws,
                   lastWindowEvent, quitPolled>>
    /\ UNCHANGED <<queueVars, selectVars, deviceVars, swapchainVars, chooseVars,
                   lifeVars>>

\* SDL_PollEvent hands out an event and the body of the inner loop runs.
RunPollEvent ==
    /\ runPc = "poll"
    /\ polled < MaxPolls
    /\ \E e \in EventSpace :
          /\ bQuit' = QuitAfter(bQuit, e)
          /\ m_stopRendering' = StopRenderingAfter(m_stopRendering, e)
          /\ lastWindowEvent' =
                 IF e.event \in {"SDL_WINDOWEVENT_MINIMIZED",
                                 "SDL_WINDOWEVENT_RESTORED"}
                 THEN e.event ELSE lastWindowEvent
          /\ quitPolled' = (quitPolled \/ e.type = "SDL_QUIT")
    /\ polled' = polled + 1
    /\ UNCHANGED <<runPc, iteration, draws>>
    /\ UNCHANGED <<queueVars, selectVars, deviceVars, swapchainVars, chooseVars,
                   lifeVars>>

\* SDL_PollEvent returns 0 and m_stopRendering is set: sleep and continue.
RunSkipDraw ==
    /\ runPc = "poll"
    /\ m_stopRendering
    /\ runPc' = "loop_test"
    /\ UNCHANGED <<bQuit, m_stopRendering, iteration, polled, draws,
                   lastWindowEvent, quitPolled>>
    /\ UNCHANGED <<queueVars, selectVars, deviceVars, swapchainVars, chooseVars,
                   lifeVars>>

\* SDL_PollEvent returns 0 and m_stopRendering is clear: draw is called.
RunDraw ==
    /\ runPc = "poll"
    /\ ~m_stopRendering
    /\ draws' = draws + 1
    /\ runPc' = "loop_test"
    /\ UNCHANGED <<bQuit, m_stopRendering, iteration, polled, lastWindowEvent,
                   quitPolled>>
    /\ UNCHANGED <<queueVars, selectVars, deviceVars, swapchainVars, chooseVars,
                   lifeVars>>

RunNext ==
    \/ RunLoopEnter
    \/ RunLoopExit
    \/ RunPollEvent
    \/ RunSkipDraw
    \/ RunDraw

SpecRun == RunInit /\ [][RunNext]_vars

\* The frame loop as the one thread of the process runs it: run keeps
\* executing (SDL_PollEvent and sleep_for return), and in the runs the event
\* queue is drained after at most MaxPolls events.
SpecRunFair == SpecRun /\ WF_vars(RunNext)

(***************************************************************************)
(* Claims about find_required_queue_families (checked under SpecQueue).    *)
(***************************************************************************)
\* The 0-based indices of the reported families.
FamilyIndexes == 0 .. (Len(queueFamilyProperties) - 1)

FamilyAt(i) == queueFamilyProperties[i + 1]

HasGraphics(i) == "GRAPHICS" \in FamilyAt(i).queueFlags
HasTransfer(i) == "TRANSFER" \in FamilyAt(i).queueFlags
HasPresentation(i) == FamilyAt(i).presentationSupport
IsDedicatedTransfer(i) == HasTransfer(i) /\ ~HasGraphics(i)

\* The optional holding the lowest index of the set S, empty when S is empty.
FirstOf(S) == {i \in S : \A j \in S : i <= j}

\* C7 (as stated): every role holds the FIRST family index that satisfies
\* the role's predicate, for both values of findDedicatedTransferFamily; the
\* dedicated transfer role is the first family with transfer and without
\* graphics whenever such a family exists.
C7_FirstMatchPerRole ==
    queuePc = "returned" =>
        /\ indices.graphicsFamily = FirstOf({i \in FamilyIndexes : HasGraphics(i)})
        /\ indices.presentationFamily =
               FirstOf({i \in FamilyIndexes : HasPresentation(i)})
        /\ ~findDedicatedTransferFamily =>
               indices.transferFamily =
                   FirstOf({i \in FamilyIndexes : HasTransfer(i)})
        /\ (findDedicatedTransferFamily
              /\ \E i \in FamilyIndexes : IsDedicatedTransfer(i)) =>
               indices.transferFamily =
                   FirstOf({i \in FamilyIndexes : IsDedicatedTransfer(i)})

\* C8: with findDedicatedTransferFamily the returned transfer role equals
\* the graphics role exactly when no family offers transfer without
\* graphics; while the scan is running the transfer role is empty or a
\* family with transfer and without graphics (the fallback is not applied
\* mid-scan); and when such a family exists the returned transfer role is
\* one of them, never a graphics-capable family.
C8_DedicatedTransferFallback ==
    findDedicatedTransferFamily =>
        /\ queuePc \in {"scan", "after"} =>
               \A t \in indices.transferFamily : IsDedicatedTransfer(t)
        /\ queuePc = "returned" =>
               /\ (indices.transferFamily = indices.graphicsFamily)
                      <=> ~(\E i \in FamilyIndexes : IsDedicatedTransfer(i))
               /\ (\E i \in FamilyIndexes : IsDedicatedTransfer(i)) =>
                      /\ indices.transferFamily # {}
                      /\ \A t \in indices.transferFamily : IsDedicatedTransfer(t)

\* C8 witness: the fallback has been applied after a scan that saw a
\* graphics family and no transfer-without-graphics family.
C8_Witness ==
    /\ queuePc = "returned"
    /\ findDedicatedTransferFamily
    /\ Len(queueFamilyProperties) >= 2
    /\ ~(\E i \in FamilyIndexes : IsDedicatedTransfer(i))
    /\ indices.graphicsFamily # {}
    /\ indices.transferFamily = indices.graphicsFamily

(***************************************************************************)
(* Claims about select_vulkan_physical_device (checked under SpecSelect).  *)
(* The survivors are described here from the devices' reported data alone, *)
(* independently of the operators the loop is modelled with.               *)
(***************************************************************************)
DeviceOf(handle) == availablePhysicalDevices[handle]

EnumeratedHandles == 1 .. Len(availablePhysicalDevices)
ExaminedHandles == 1 .. devicesSeen
RankedHandles ==
    {physicalDeviceRankings[k].device : k \in 1 .. Len(physicalDeviceRankings)}

MajorOf(d) == d.apiVersion \div 4194304
MinorOf(d) == (d.apiVersion \div 4096) % 1024

ReportsAllRequiredFeatures(d) ==
    \A f \in {"dynamicRendering", "synchronization2", "bufferDeviceAddress",
              "descriptorIndexing"} : f \in d.features

\* The roles of a device when no dedicated transfer family is asked for.
HasEveryRole(d) ==
    LET fam == d.queueFamilyProperties
    IN /\ \E k \in 1 .. Len(fam) : "GRAPHICS" \in fam[k].queueFlags
       /\ \E k \in 1 .. Len(fam) : fam[k].presentationSupport
       /\ \E k \in 1 .. Len(fam) : "TRANSFER" \in fam[k].queueFlags

HasSwapchainExtension(d) == "VK_KHR_swapchain" \in d.extensions

HasAdequateSurface(d) ==
    Len(d.surfaceFormats) >= 1 /\ Len(d.presentationModes) >= 1

\* The filters other than the API-version filter.
PassesOtherFilters(d) ==
    /\ ReportsAllRequiredFeatures(d)
    /\ HasEveryRole(d)
    /\ HasSwapchainExtension(d)
    /\ HasAdequateSurface(d)

\* A device the loop lets through: the version test as the loop makes it
\* (major at least 1 and minor at least 3) and the other four filters.
Survives(d) == MajorOf(d) >= 1 /\ MinorOf(d) >= 3 /\ PassesOtherFilters(d)

Survivors == {h \in EnumeratedHandles : Survives(DeviceOf(h))}

ScoreOf(d) == IF d.deviceType = "DISCRETE_GPU" THEN 100 ELSE 0

\* C1: a device that reports one of the four required feature flags as
\* false is never in the ranked table and never the selected device.
C1_FeatureFilterConjunctive ==
    /\ \A h \in RankedHandles : ReportsAllRequiredFeatures(DeviceOf(h))
    /\ m_vulkanPhysicalDevice # VK_NULL_HANDLE =>
           ReportsAllRequiredFeatures(DeviceOf(m_vulkanPhysicalDevice))

\* C1 witness: the selection has finished over a list in which a device
\* lacks exactly one required flag and passes every other filter, next to a
\* device that was ranked.
C1_Witness ==
    /\ selectPc = "selected"
    /\ \E h \in EnumeratedHandles :
          /\ Cardinality({"dynamicRendering", "synchronization2",
                          "bufferDeviceAddress", "descriptorIndexing"}
                             \ DeviceOf(h).features) = 1
          /\ MajorOf(DeviceOf(h)) = 1 /\ MinorOf(DeviceOf(h)) = 3
          /\ HasEveryRole(DeviceOf(h))
          /\ HasSwapchainExtension(DeviceOf(h))
          /\ HasAdequateSurface(DeviceOf(h))
          /\ h \notin RankedHandles
          /\ h < m_vulkanPhysicalDevice

C3_StoredDataOfSelectedDevice ==
    selectPc = "selected" =>
        LET d == DeviceOf(m_vulkanPhysicalDevice)
        IN /\ m_queueFamilyIndices =
                  find_required_queue_families(d.queueFamilyProperties,
                                               m_useDedicatedTransferQueueFamily)
           /\ m_swapChainSupportDetails = query_swapchain_support(d)

\* C4 (as stated): after a successful selection the stored roles are
\* complete, the stored snapshot has a format and a present mode, and
\* create_vulkan_logical_device does not raise its "indices not set" error.
C4_StoredDataPassesFilters ==
    /\ selectPc = "selected" =>
           /\ isComplete(m_queueFamilyIndices)
           /\ Len(m_swapChainSupportDetails.surfaceFormats) >= 1
           /\ Len(m_swapChainSupportDetails.presentationModes) >= 1
    /\ thrown # "QueueFamilyIndicesNotSet"

AtLeastVulkan13(d) ==
    MajorOf(d) > 1 \/ (MajorOf(d) = 1 /\ MinorOf(d) >= 3)

\* C6 (as stated): the version filter rejects a device exactly when its
\* (major, minor) is below 1.3: an examined device is in the ranked table
\* if and only if its version is at or above 1.3 and it passes the other
\* filters.
C6_VersionFloor ==
    \A h \in ExaminedHandles :
        h \in RankedHandles <=>
            (AtLeastVulkan13(DeviceOf(h)) /\ PassesOtherFilters(DeviceOf(h)))

(***************************************************************************)
(* Claims about create_vulkan_swapchain (checked under SpecSwapchain).     *)
(***************************************************************************)
\* create_vulkan_swapchain has filled in its VkSwapchainCreateInfoKHR.
CreateInfoFilled == swapchainCreateInfo # NoSwapchainCreateInfo

StoredCapabilities == m_swapChainSupportDetails.surfaceCapabilities

\* v brought into [lo, hi], for lo <= hi.
Into(v, lo, hi) ==
    CHOOSE r \in lo .. hi :
        /\ (lo <= v /\ v <= hi) => r = v
        /\ v < lo => r = lo
        /\ v > hi => r = hi

\* C9 (as stated): the requested image count is minImageCount + 1 brought
\* into [minImageCount, maxImageCount], the upper limit being skipped when
\* maxImageCount is 0, and it is never below minImageCount.
C9_ImageCountClamped ==
    CreateInfoFilled =>
        LET lo == StoredCapabilities.minImageCount
            hi == StoredCapabilities.maxImageCount
        IN /\ swapchainCreateInfo.minImageCount =
                  (IF hi = 0 THEN lo + 1 ELSE Into(lo + 1, lo, hi))
           /\ swapchainCreateInfo.minImageCount >= lo

\* C10: the extent handed to the swapchain is the reported currentExtent
\* whenever its width is not the marker, whatever the window extent; with
\* the marker it is the window extent with width and height each brought
\* into their own [minImageExtent, maxImageExtent] range.
C10_ExtentChosen ==
    CreateInfoFilled =>
        LET caps == StoredCapabilities
            e    == swapchainCreateInfo.imageExtent
        IN IF caps.currentExtent.width # UINT32_MAX
           THEN e = caps.currentExtent
           ELSE /\ e.width = Into(m_windowExtent.width, caps.minImageExtent.width,
                                  caps.maxImageExtent.width)
                /\ e.height = Into(m_windowExtent.height,
                                   caps.minImageExtent.height,
                                   caps.maxImageExtent.height)
                /\ caps.minImageExtent.width <= e.width
                /\ e.width <= caps.maxImageExtent.width
                /\ caps.minImageExtent.height <= e.height
                /\ e.height <= caps.maxImageExtent.height

\* C10 witness: a swapchain created from a surface that reports the marker,
\* whose limits force the width down and the height up.
C10_Witness ==
    /\ swapchainPc = "created"
    /\ StoredCapabilities.currentExtent.width = UINT32_MAX
    /\ StoredCapabilities.maxImageExtent.width < m_windowExtent.width
    /\ StoredCapabilities.minImageExtent.height > m_windowExtent.height
    /\ m_swapchainExtent2D.width = StoredCapabilities.maxImageExtent.width
    /\ m_swapchainExtent2D.height = StoredCapabilities.minImageExtent.height

(***************************************************************************)
(* Claims about the two choosers (checked under SpecFormat and             *)
(* SpecPresentMode).                                                       *)
(***************************************************************************)
\* The positions of the list that hold the preferred format: 8-bit BGRA with
\* the non-linear sRGB colour space.
PreferredPositions ==
    {k \in 1 .. Len(formatList) :
         /\ formatList[k].format = "B8G8R8A8_UNORM"
         /\ formatList[k].colorSpace = "SRGB_NONLINEAR"}

\* C11: for every non-empty format list the chooser returns the
\* (B8G8R8A8, non-linear sRGB) entry if it occurs at any position of the
\* list, otherwise the first entry; the result is a member of the list.
C11_PreferredFormatOrFirst ==
    formatPc = "returned" =>
        /\ formatList # <<>>
        /\ \E k \in 1 .. Len(formatList) : formatReturned = formatList[k]
        /\ PreferredPositions # {} =>
               /\ formatReturned.format = "B8G8R8A8_UNORM"
               /\ formatReturned.colorSpace = "SRGB_NONLINEAR"
        /\ PreferredPositions = {} => formatReturned = formatList[1]

\* A call returned the preferred entry from the last position of a list
\* whose first entry has the preferred format in another colour space.
C11_Witness ==
    /\ formatPc = "returned"
    /\ Len(formatList) >= 2
    /\ PreferredPositions = {Len(formatList)}
    /\ formatList[1] = FormatBGRALinear
    /\ formatReturned = FormatBGRA

\* C12: for every list of supported modes and every desired mode the chooser
\* returns the desired mode if the list holds it and FIFO otherwise.
C12_DesiredModeOrFifo ==
    modePc = "returned" =>
        /\ (\E k \in 1 .. Len(modeList) : modeList[k] = modeDesired)
               => modeReturned = modeDesired
        /\ (\A k \in 1 .. Len(modeList) : modeList[k] # modeDesired)
               => modeReturned = "FIFO"

\* A call asked for MAILBOX on a surface that lists FIFO only and got FIFO.
C12_Witness ==
    /\ modePc = "returned"
    /\ modeList = <<"FIFO">>
    /\ modeDesired = "MAILBOX"
    /\ modeReturned = "FIFO"

(***************************************************************************)
(* Claims about create_vulkan_logical_device (checked under SpecSelect).   *)
(***************************************************************************)
\* The family indices the stored roles name.
RoleFamilies ==
    m_queueFamilyIndices.graphicsFamily
        \cup m_queueFamilyIndices.presentationFamily
        \cup m_queueFamilyIndices.transferFamily

\* The queue-creation requests that name family f.
RequestsFor(f) ==
    {k \in 1 .. Len(deviceQueueCreateInfos) :
         deviceQueueCreateInfos[k].queueFamilyIndex = f}

\* C13: the logical device is created with exactly one queue-creation request
\* per distinct family index among the three roles (1 to 3 requests, no
\* family twice, no other family), and afterwards each role holds the handle
\* of a queue of its own family, also when roles share a family.
C13_OneRequestPerDistinctFamily ==
    selectPc = "device_created" =>
        /\ Len(deviceQueueCreateInfos) \in 1 .. 3
        /\ \A f \in RoleFamilies : Cardinality(RequestsFor(f)) = 1
        /\ \A k \in 1 .. Len(deviceQueueCreateInfos) :
               deviceQueueCreateInfos[k].queueFamilyIndex \in RoleFamilies
        /\ m_queueFamilyIndices.graphicsFamily =
               {m_graphicsQueue.queueFamilyIndex}
        /\ m_queueFamilyIndices.presentationFamily =
               {m_presentationQueue.queueFamilyIndex}
        /\ m_queueFamilyIndices.transferFamily =
               {m_transferQueue.queueFamilyIndex}

\* A device was created whose presentation and transfer roles share a
\* family the graphics role does not use: two requests, three handles.
C13_Witness ==
    /\ selectPc = "device_created"
    /\ Len(deviceQueueCreateInfos) = 2
    /\ m_presentationQueue = m_transferQueue
    /\ m_graphicsQueue # m_presentationQueue

\* A device was created with three requests, one per role.
C13_WitnessThreeFamilies ==
    /\ selectPc = "device_created"
    /\ Len(deviceQueueCreateInfos) = 3

(***************************************************************************)
(* Claims about init and cleanup (checked under SpecLife).                 *)
(***************************************************************************)
\* The place of a kind of resource in the order of the spec: window,
\* instance, debug hook, surface, physical device, logical device,
\* swapchain, image views, command pools with their buffers.
StageNo(kind) ==
    CASE kind = "window"          -> 1
      [] kind = "instance"        -> 2
      [] kind = "debug_messenger" -> 3
      [] kind = "surface"         -> 4
      [] kind = "physical_device" -> 5
      [] kind = "device"          -> 6
      [] kind = "swapchain"       -> 7
      [] kind = "image_view"      -> 8
      [] kind = "command_pool"    -> 9
      [] kind = "command_buffer"  -> 9

\* The stages an init call cannot pass without creating something: all but
\* the debug hook of a build without validation layers.
StageMandatory(stage) == stage # 3 \/ ~ndebug

\* What engine e's latest init call created comes in stage order.
CreatedInStageOrder(e) ==
    \A i, j \in DOMAIN created[e] :
        i < j => StageNo(created[e][i][1]) <= StageNo(created[e][j][1])

\* Nothing of a stage was created unless every stage before it had created
\* its resource.
NoStageSkipped(e) ==
    \A j \in DOMAIN created[e] :
        \A stage \in 1 .. (StageNo(created[e][j][1]) - 1) :
            StageMandatory(stage) =>
                \E i \in 1 .. (j - 1) : StageNo(created[e][i][1]) = stage

\* Engine e's latest init call created everything up to the last command
\* buffer.
EveryStageSucceeded(e) ==
    /\ CreatedInStageOrder(e)
    /\ NoStageSkipped(e)
    /\ \E j \in DOMAIN created[e] :
          /\ created[e][j][1] = "command_buffer"
          /\ created[e][j][4] = FRAME_OVERLAP
    /\ Cardinality({j \in DOMAIN created[e] : created[e][j][1] = "image_view"})
           = Len(engine[e].m_swapchainImageViews)

\* C14: init runs its stages in the strict order instance, debug hook,
\* surface, physical-device selection, logical device, swapchain with its
\* image views, command pools; no stage starts before the one before it has
\* succeeded; a failure ends the call with nothing more created; and
\* m_isInitialized becomes true only after every stage has succeeded.
C14_InitStagesInOrder ==
    [][/\ \A e \in EngineObjects :
             /\ CreatedInStageOrder(e)'
             /\ NoStageSkipped(e)'
             /\ (~engine[e].m_isInitialized /\ engine'[e].m_isInitialized)
                    => EveryStageSucceeded(e)'
             /\ (lifePc = "idle" /\ created'[e] # created[e])
                    => created'[e] = <<>>
       /\ (thrown' # thrown /\ thrown' # "none") =>
             /\ lifePc' = "idle"
             /\ \A e \in EngineObjects :
                   engine'[e].m_isInitialized = engine[e].m_isInitialized
      ]_vars

\* An engine of a build with validation layers has gone through every stage
\* and is initialised.
C14_Witness ==
    /\ ~ndebug
    /\ lifePc = "idle"
    /\ \E e \in EngineObjects :
          /\ engine[e].m_isInitialized
          /\ initOutcome[e] = "succeeded"
          /\ EveryStageSucceeded(e)
          /\ Len(created[e]) = 7 + Len(engine[e].m_swapchainImageViews)
                                 + 2 * FRAME_OVERLAP

\* The calls of engine e's latest cleanup after the cleanup entry itself.
TeardownCalls(e) == IF teardown[e] = <<>> THEN <<>> ELSE Tail(teardown[e])

\* The positions of the calls of a kind in engine e's latest cleanup.
TeardownPositions(e, kind) ==
    {i \in DOMAIN TeardownCalls(e) : TeardownCalls(e)[i][1] = kind}

\* Every call of the first kind comes before every call of the second.
TornDownBefore(e, first, second) ==
    \A i \in TeardownPositions(e, first), j \in TeardownPositions(e, second) :
        i < j

\* The kinds of resource a cleanup destroys.
DestroyedKinds ==
    {"image_view", "swapchain", "command_pool", "device", "surface",
     "debug_messenger", "instance", "window"}

\* C15: cleanup of an initialised engine first waits for the device to go
\* idle and then destroys image views, swapchain, logical device, surface,
\* debug hook (with validation layers) and instance in that order; nothing is
\* destroyed before the wait, and nothing after the object it was created
\* from: image views, swapchain and command pools before the device, surface
\* and debug hook before the instance.
C15_CleanupOrder ==
    \A e \in EngineObjects :
        TeardownCalls(e) # <<>> =>
            /\ TeardownCalls(e)[1][1] = "wait_idle"
            /\ \A kind \in DestroyedKinds : TornDownBefore(e, "wait_idle", kind)
            /\ \A kind \in DestroyedKinds \ {"debug_messenger"} :
                   TeardownPositions(e, kind) # {}
            /\ ~ndebug <=> TeardownPositions(e, "debug_messenger") # {}
            /\ TornDownBefore(e, "image_view", "swapchain")
            /\ TornDownBefore(e, "swapchain", "device")
            /\ TornDownBefore(e, "device", "surface")
            /\ TornDownBefore(e, "surface", "debug_messenger")
            /\ TornDownBefore(e, "debug_messenger", "instance")
            /\ TornDownBefore(e, "surface", "instance")
            /\ TornDownBefore(e, "image_view", "device")
            /\ TornDownBefore(e, "command_pool", "device")

\* An engine of a build with validation layers was initialised and cleaned
\* up, its debug hook destroyed between surface and instance.
C15_Witness ==
    /\ ~ndebug
    /\ \E e \in EngineObjects :
          /\ initOutcome[e] = "succeeded"
          /\ TeardownPositions(e, "debug_messenger") # {}
          /\ TeardownPositions(e, "command_pool") # {}
          /\ LiveOf(e) = {}

\* The stages named by the claim about the reverse order.
ReversedKinds ==
    {"instance", "debug_messenger", "surface", "device", "swapchain",
     "image_view", "command_pool"}

\* Engine e's latest init created something of the first kind before
\* anything of the second.
CreatedBefore(e, first, second) ==
    /\ \E i \in DOMAIN created[e] : created[e][i][1] = first
    /\ \E j \in DOMAIN created[e] : created[e][j][1] = second
    /\ \A i, j \in DOMAIN created[e] :
          (created[e][i][1] = first /\ created[e][j][1] = second) => i < j

\* Engine e was initialised by its latest init call and cleaned up since.
InitializedAndCleanedUp(e) ==
    /\ initOutcome[e] = "succeeded"
    /\ TeardownCalls(e) # <<>>

\* C16 as stated: the destruction order of cleanup is the strict reverse of
\* the creation order of init over instance, debug hook, surface, logical
\* device, swapchain, image views and command pools: whenever one is
\* created before another, the other is destroyed before it.
C16_StrictReverseOrder ==
    \A e \in EngineObjects :
        InitializedAndCleanedUp(e) =>
            \A first, second \in ReversedKinds :
                CreatedBefore(e, first, second)
                    => TornDownBefore(e, second, first)

\* The pairs of stages cleanup does not take in reverse: the command pools
\* are created after the swapchain and its image views and destroyed after
\* them too.
NotReversed ==
    {<<"swapchain", "command_pool">>, <<"image_view", "command_pool">>}

\* C16 amended: the destruction order of cleanup is the reverse of the
\* creation order of init over instance, debug hook, surface, logical
\* device, swapchain, image views and command pools, except that the command
\* pools, created last, are destroyed after the swapchain and its image
\* views (and before the logical device).
C16_ReverseOrderButCommandPools ==
    \A e \in EngineObjects :
        InitializedAndCleanedUp(e) =>
            \A first, second \in ReversedKinds :
                CreatedBefore(e, first, second) =>
                    IF <<first, second>> \in NotReversed
                    THEN /\ TornDownBefore(e, first, second)
                         /\ TeardownPositions(e, first) # {}
                         /\ TeardownPositions(e, second) # {}
                    ELSE /\ TornDownBefore(e, second, first)
                         /\ TeardownPositions(e, first) # {}
                         /\ TeardownPositions(e, second) # {}

\* An engine was initialised and cleaned up, its command pools destroyed
\* after its swapchain and before its logical device.
C16_Witness ==
    \E e \in EngineObjects :
        /\ InitializedAndCleanedUp(e)
        /\ CreatedBefore(e, "swapchain", "command_pool")
        /\ TeardownPositions(e, "command_pool") # {}
        /\ TornDownBefore(e, "swapchain", "command_pool")
        /\ TornDownBefore(e, "command_pool", "device")

\* Engine e, fresh before, has had one init call that succeeded and a
\* cleanup call since.
RoundTripDone(e) ==
    /\ inits[e] = 1
    /\ InitializedAndCleanedUp(e)

\* The engines that have selected a physical device.
EnginesWithDevice ==
    {e \in EngineObjects : engine[e].m_vulkanPhysicalDevice # VK_NULL_HANDLE}

\* C17: after init and cleanup on a fresh engine, and again on another fresh
\* engine of the same process, no handle of either is live after its
\* cleanup, the second init is accepted, and both runs select the same
\* physical device of the unchanged device list.
C17_RoundTripTwice ==
    [][/\ \A e \in EngineObjects : RoundTripDone(e)' => LiveOf(e)' = {}
       /\ (/\ inits' # inits
           /\ \A e \in EngineObjects : inits[e] > 0 => RoundTripDone(e))
              => /\ lifePc' # "aborted"
                 /\ loadedEngine' = lifeThis'
       /\ \A e1, e2 \in EnginesWithDevice' :
             engine'[e1].m_vulkanPhysicalDevice
                 = engine'[e2].m_vulkanPhysicalDevice
      ]_vars

\* Two engines of a debug build were each initialised and cleaned up, one
\* after the other.
C17_Witness ==
    /\ ~ndebug
    /\ \A e \in EngineObjects : RoundTripDone(e)
    /\ live = {}
    /\ loadedEngine = nullptr
    /\ lifePc = "idle"

\* C19: every create of init is paired with a release on every exit path: if
\* init aborts at any stage, a following cleanup call destroys every resource
\* created before the failure, so no handle stays live.
C19_FailedInitReleased ==
    \A e \in EngineObjects :
        (/\ lifePc = "idle"
         /\ inits[e] = 1
         /\ initOutcome[e] = "failed"
         /\ teardown[e] # <<>>)
            => LiveOf(e) = {}

\* The engines initialised by their latest init call and not cleaned up
\* since.
LiveEngines ==
    {e \in EngineObjects : initOutcome[e] = "succeeded" /\ teardown[e] = <<>>}

\* C20: at most one engine is live per process: between calls, for every
\* sequence of init and cleanup calls on several engine objects,
\* loadedEngine is non-null exactly while some engine has been initialised
\* and not yet cleaned up, and it points to that engine; so a cleanup call on
\* another engine does not clear it and an init while an engine is live does
\* not go through.
C20_LoadedEngineIsTheLiveEngine ==
    lifePc = "idle" =>
        /\ Cardinality(LiveEngines) <= 1
        /\ loadedEngine # nullptr <=> LiveEngines # {}
        /\ loadedEngine # nullptr => loadedEngine \in LiveEngines

(***************************************************************************)
(* Claims about run (checked under SpecRun).                               *)
(***************************************************************************)
\* A step that ends an iteration of the outer loop.
IterationEnds == runPc = "poll" /\ runPc' = "loop_test"

\* C18: draw is called in an iteration exactly if, after that iteration's
\* events, rendering is not stopped: from a MINIMIZED event until the next
\* RESTORED event no iteration draws, the flag is looked at again in every
\* iteration, and the iteration that polls RESTORED draws.
C18_DrawUnlessMinimized ==
    [][/\ draws' # draws => IterationEnds
       /\ IterationEnds =>
             IF lastWindowEvent = "SDL_WINDOWEVENT_MINIMIZED"
             THEN draws' = draws
             ELSE draws' = draws + 1
      ]_vars

\* The window was minimised in an iteration that did not draw, and restored
\* in a later one that drew.
C18_Witness ==
    /\ runPc = "loop_test"
    /\ iteration = 2
    /\ draws = 1
    /\ lastWindowEvent = "SDL_WINDOWEVENT_RESTORED"

\* C21: each resource created by init is destroyed at most once over any
\* sequence of cleanup calls: a second cleanup call on an engine destroys
\* nothing, and a cleanup after a re-init that failed part-way makes no
\* destroy call on a handle that an earlier cleanup destroyed.
C21_DestroyedAtMostOnce == destroyedAgain = {}

\* C22: run returns exactly when a quit event has been polled: it does not
\* return unless SDL_QUIT was polled; once SDL_QUIT is polled no further
\* iteration begins, the loop test that follows ends the loop, and run does
\* return, whether or not rendering is stopped.
C22_ReturnsExactlyOnQuit ==
    /\ [](runPc = "returned" => quitPolled)
    /\ [][/\ quitPolled => iteration' = iteration
          /\ (quitPolled /\ runPc = "loop_test") => runPc' = "returned"
         ]_vars
    /\ (quitPolled ~> runPc = "returned")

\* run has returned from an iteration that polled SDL_QUIT while the window
\* was minimised and nothing was drawn.
C22_Witness ==
    /\ runPc = "returned"
    /\ quitPolled
    /\ m_stopRendering
    /\ draws = 0
    /\ iteration = 1

====
